---- MODULE Spec2Model ----
(***************************************************************************)
(* Model of the HR multi-agent pipeline of withrein/bank:                  *)
(*   workflow.py            HRWorkflow (parse -> score -> shortlist ->     *)
(*                          questions -> emails -> finalize)               *)
(*   agents/*_agent.py      the five stage agents                          *)
(*   models.py              AgentState and the records the stages produce  *)
(*   config.py              Config (weights, shortlist size, threshold)    *)
(*                                                                         *)
(* The environment (document reader, LLM, file system) is nondeterministic:*)
(* every call has one nominal outcome and a set of deviating outcomes.     *)
(* A run may contain at most `budget` deviating outcomes.                  *)
(*                                                                         *)
(* Numbers.  Python floats are modelled by exact integers: a component     *)
(* score of p points is the integer p * Unit, an overall score of p points *)
(* is p * Unit * 100 (the weights are held as integer percents).           *)
(***************************************************************************)
EXTENDS Integers, Sequences, FiniteSets, TLC

(***************************************************************************)
(* Bounds of the model.                                                    *)
(***************************************************************************)
MaxFiles  == 2      \* longest cv_files list of a run
MaxFaults == 1      \* deviating environment outcomes per run
MaxCalls  == 4      \* stage calls per behaviour of the stage harness
MaxScores == 3      \* longest score list given to shortlist_candidates
MaxShortlist == 2   \* largest Config.MAX_CANDIDATES_TO_SHORTLIST of a run
StageFiles == 1     \* longest cv_files list of the stage harness

(***************************************************************************)
(* Small helpers.                                                          *)
(***************************************************************************)
Min(a, b) == IF a <= b THEN a ELSE b
Max(a, b) == IF a >= b THEN a ELSE b

Range(s) == {s[i] : i \in 1..Len(s)}

SeqsUpTo(S, n) == UNION {[1..k -> S] : k \in 0..n}

IsPrefix(s, t) == Len(s) <= Len(t) /\ SubSeq(t, 1, Len(s)) = s

\* Python's `None`, for a string field and for an integer field
None == "None"
NoneInt == 0 - 1

\* Python's `a or b` for an Optional[str], an Optional[int] and a list
OrStr(a, b) == IF a = None \/ a = "" THEN b ELSE a
OrInt(a, b) == IF a = NoneInt \/ a = 0 THEN b ELSE a
OrSet(a, b) == IF a = {} THEN b ELSE a

(***************************************************************************)
(* Numeric representation.                                                 *)
(***************************************************************************)
Unit == 2 * 3 * 10          \* one score point; divisible by every denominator used below
Pts(p) == p * Unit          \* a component score of p points
OverallPts(p) == p * Unit * 100   \* an overall score / a threshold of p points

(***************************************************************************)
(* The environment: documents on disk and what the regex heuristics of the *)
(* CV parser find in their text.  Two CVs, as in main.py's samples and the *)
(* spec's scenario: a strong candidate and a weak one.                     *)
(***************************************************************************)
Files == {"cvs/a.txt", "cvs/b.txt"}

\* file_path.split('/')[-1]
BaseName(f) == IF f = "cvs/a.txt" THEN "a.txt" ELSE "b.txt"

\* str.lower() on the skill and language tokens of the model
Lower(s) ==
    CASE s = "Python" -> "python"
      [] s = "SQL" -> "sql"
      [] s = "Sql" -> "sql"
      [] s = "AWS" -> "aws"
      [] s = "Java" -> "java"
      [] s = "English" -> "english"
      [] s = "Mongolian" -> "mongolian"
      [] OTHER -> s

\* An education entry is abstracted to the keyword groups that the scorer's
\* substring tests find in str(entry).lower().
EduBachelorCS == {"bachelor", "computer", "science"}

\* A work-history entry: the words of its role and whether its company
\* name contains 'tech' or 'software'.
WorkDev == [role |-> {"software", "engineer"}, tech |-> TRUE]

\* extract_text_from_file + the parse_* heuristics, per document
Doc(f) ==
    IF f = "cvs/a.txt"
    THEN [text |-> "text of a.txt", name |-> "alice smith", email |-> "alice@mail.com",
          skills |-> {"Python", "Sql", "Aws"}, experience_years |-> 5,
          education |-> {EduBachelorCS}, work_experience |-> {WorkDev}]
    ELSE [text |-> "text of b.txt", name |-> None, email |-> None,
          skills |-> {"Java"}, experience_years |-> 1,
          education |-> {}, work_experience |-> {}]

\* utils.format_candidate_name: empty -> "Unknown Candidate", else
\* whitespace-normalised and title-cased
format_candidate_name(name) ==
    CASE name = None -> "Unknown Candidate"
      [] name = "" -> "Unknown Candidate"
      [] name = "alice smith" -> "Alice Smith"
      [] name = "ALICE  SMITH" -> "Alice Smith"
      [] name = "bob jones" -> "Bob Jones"
      [] OTHER -> name

(***************************************************************************)
(* LLM responses to the CV-extraction prompt.  A parsed JSON value is      *)
(* [is_dict, keys, null, v]: whether it is an object, the keys it has, the *)
(* keys whose value is JSON null, and the values of the other keys.        *)
(***************************************************************************)
CVKeys == {"name", "email", "current_role", "experience_years", "skills",
           "education", "work_experience", "languages"}

\* the nominal answer of the LLM for a document
LLMCVNominal(f) ==
    IF f = "cvs/a.txt"
    THEN [name |-> "ALICE  SMITH", email |-> "alice@mail.com", current_role |-> "Engineer",
          experience_years |-> 6, skills |-> {"Python", "SQL"}, education |-> {EduBachelorCS},
          work_experience |-> {WorkDev}, languages |-> {"English", "Mongolian"}]
    ELSE [name |-> "bob jones", email |-> "bob@mail.com", current_role |-> None,
          experience_years |-> NoneInt, skills |-> {"Java"}, education |-> {},
          work_experience |-> {}, languages |-> {}]

\* Answers: the nominal object; the call raising; text that is no JSON; a
\* JSON value that is no object; an object with a null list; the empty object.
CVResponseKinds == {"ok", "raise", "bad_json", "not_object", "null_skills",
                    "null_education", "empty_object"}

\* an extraction that hands back None instead of {} when the call or the
\* JSON parsing fails
extract_structured_data_with_llm_none_on_failure(f, kind) ==
    LET obj(keys, null) == [is_dict |-> TRUE, keys |-> keys, null |-> null,
                            v |-> LLMCVNominal(f)]
    IN  CASE kind = "ok" -> obj(CVKeys, {})
          [] kind = "null_skills" -> obj(CVKeys, {"skills"})
          [] kind = "null_education" -> obj(CVKeys, {"education"})
          [] kind = "empty_object" -> obj({}, {})
          [] OTHER -> [obj({}, {}) EXCEPT !.is_dict = FALSE]

\* CVParserAgent._extract_structured_data_with_llm: what parse_cv receives
extract_structured_data_with_llm(f, kind) ==
    LET obj(keys, null) == [is_dict |-> TRUE, keys |-> keys, null |-> null,
                            v |-> LLMCVNominal(f)]
    IN  CASE kind = "ok" -> obj(CVKeys, {})
          [] kind = "raise" -> obj({}, {})
          [] kind = "bad_json" -> obj({}, {})
          [] kind = "not_object" -> [obj({}, {}) EXCEPT !.is_dict = FALSE]
          [] kind = "null_skills" -> obj(CVKeys, {"skills"})
          [] kind = "null_education" -> obj(CVKeys, {"education"})
          [] OTHER -> obj({}, {})

\* dict.get(k, default) where the value is not null
Get(d, k, default) == IF k \in d.keys THEN d.v[k] ELSE default
IsNull(d, k) == k \in d.keys /\ k \in d.null

(***************************************************************************)
(* CV parsing (agents/cv_parser_agent.py).                                 *)
(***************************************************************************)
\* the record parse_cv's except-branch returns
PlaceholderCV(f, why) ==
    [name |-> "Unknown Candidate", email |-> None, current_role |-> None,
     experience_years |-> NoneInt, skills |-> {}, education |-> {},
     work_experience |-> {}, languages |-> {},
     raw_text |-> why, file_name |-> BaseName(f)]

\* CVParserAgent.parse_cv; text_ok is whether extract_text_from_file returned text
parse_cv(f, text_ok, kind) ==
    LET h == Doc(f)
        llm_data == extract_structured_data_with_llm(f, kind)
    IN  IF ~text_ok
        THEN PlaceholderCV(f, "Error parsing file: Could not extract text")
        ELSE IF ~llm_data.is_dict
        THEN PlaceholderCV(f, "Error parsing file: AttributeError")
        ELSE IF IsNull(llm_data, "skills")
        THEN PlaceholderCV(f, "Error parsing file: TypeError")
        ELSE IF h.education = {} /\ IsNull(llm_data, "education")
        THEN PlaceholderCV(f, "Error parsing file: ValidationError")
        ELSE [name |-> format_candidate_name(
                          OrStr(h.name, Get(llm_data, "name", "Unknown Candidate"))),
              email |-> OrStr(h.email, Get(llm_data, "email", None)),
              current_role |-> Get(llm_data, "current_role", None),
              experience_years |-> OrInt(h.experience_years,
                                         Get(llm_data, "experience_years", NoneInt)),
              skills |-> h.skills \cup Get(llm_data, "skills", {}),
              education |-> OrSet(h.education, Get(llm_data, "education", {})),
              work_experience |-> OrSet(h.work_experience,
                                        Get(llm_data, "work_experience", {})),
              languages |-> Get(llm_data, "languages", {}),
              raw_text |-> h.text, file_name |-> BaseName(f)]

\* one environment outcome per file: does the reader return text, what does the LLM say
ParseOutcomes == [text_ok : BOOLEAN, llm : CVResponseKinds]

\* number of deviating outcomes in a choice (the LLM is not called without text)
ParseFaults(o) == IF ~o.text_ok THEN 1 ELSE IF o.llm = "ok" THEN 0 ELSE 1

\* a batch loop that drops the files it could not read
parse_multiple_cvs_skipping_failures(file_paths, outcomes) ==
    SelectSeq([i \in 1..Len(file_paths) |->
                  parse_cv(file_paths[i], outcomes[i].text_ok, outcomes[i].llm)],
              LAMBDA cv : cv.raw_text # "Error parsing file: Could not extract text")

\* CVParserAgent.parse_multiple_cvs: one record per path, in order
parse_multiple_cvs(file_paths, outcomes) ==
    [i \in 1..Len(file_paths) |->
        parse_cv(file_paths[i], outcomes[i].text_ok, outcomes[i].llm)]

(***************************************************************************)
(* Job postings (models.JobDescription).  job_description holds the id of  *)
(* a posting, or None.                                                     *)
(***************************************************************************)
JobIds == {"dev", "open"}

\* letters counts the Cyrillic and the Latin letters of title, company and
\* description, keywords the Mongolian keywords found in them; "mn" is the
\* "dev" posting written in Mongolian
Job(id) ==
    CASE id = "dev" ->
         [title |-> {"software", "engineer"}, company |-> "Acme",
          required_skills |-> {"Python", "SQL"}, preferred_skills |-> {"AWS"},
          min_experience |-> 3, education_requirements |-> {"Bachelor"},
          description |-> {"software", "engineer"},
          letters |-> [cyrillic |-> 0, latin |-> 40], keywords |-> 0]
      [] id = "mn" ->
         [title |-> {"software", "engineer"}, company |-> "Acme",
          required_skills |-> {"Python", "SQL"}, preferred_skills |-> {"AWS"},
          min_experience |-> 3, education_requirements |-> {"Bachelor"},
          description |-> {"software", "engineer"},
          letters |-> [cyrillic |-> 36, latin |-> 4], keywords |-> 3]
      [] OTHER ->
         [title |-> {"assistant"}, company |-> "Acme",
          required_skills |-> {}, preferred_skills |-> {},
          min_experience |-> NoneInt, education_requirements |-> {},
          description |-> {"office"},
          letters |-> [cyrillic |-> 0, latin |-> 30], keywords |-> 0]

(***************************************************************************)
(* Scoring (agents/scoring_agent.py, utils.py, config.py).                 *)
(***************************************************************************)
\* weights that let the LLM's cultural-fit value outweigh the experience
SCORING_WEIGHTS_fit_heavy == [experience |-> 10, education |-> 25, skills |-> 25, other |-> 40]

\* Config.SCORING_WEIGHTS, as integer percents
SCORING_WEIGHTS == [experience |-> 40, education |-> 25, skills |-> 25, other |-> 10]

\* ScoringAgent.detect_cv_language: the documents of the model are English,
\* and so is the placeholder's error text
detect_cv_language(parsed_cv) == "en"

LowerSet(S) == {Lower(x) : x \in S}

\* utils.calculate_skill_match_percentage, in score points
calculate_skill_match_percentage(candidate_skills, required_skills) ==
    IF required_skills = {}
    THEN Pts(100)
    ELSE (Cardinality(LowerSet(candidate_skills) \cap LowerSet(required_skills)) * Pts(100))
            \div Cardinality(LowerSet(required_skills))

\* a skills score that counts an empty requirement list as nothing matched
calculate_skills_score_empty_is_zero(parsed_cv, job) ==
    LET required_match ==
            IF job.required_skills = {} THEN 0
            ELSE calculate_skill_match_percentage(parsed_cv.skills, job.required_skills)
        preferred_match ==
            IF job.preferred_skills = {} THEN 0
            ELSE (calculate_skill_match_percentage(parsed_cv.skills,
                                                   job.preferred_skills) * 3) \div 10
        language_bonus == IF Cardinality(parsed_cv.languages) >= 2 THEN Pts(5) ELSE 0
    IN  Min(required_match + preferred_match + language_bonus, Pts(100))

\* ScoringAgent._calculate_skills_score
calculate_skills_score(parsed_cv, job) ==
    IF job.required_skills = {}
    THEN Pts(100)
    ELSE LET required_match ==
                 calculate_skill_match_percentage(parsed_cv.skills, job.required_skills)
             preferred_match ==
                 IF job.preferred_skills = {} THEN 0
                 ELSE (calculate_skill_match_percentage(parsed_cv.skills,
                                                        job.preferred_skills) * 3) \div 10
             bilingual == IF Cardinality(parsed_cv.languages) >= 2 THEN Pts(5) ELSE 0
             cv_language == detect_cv_language(parsed_cv)
             cross ==
                 IF cv_language = "mn" /\ "english" \in LowerSet(parsed_cv.languages)
                 THEN Pts(5)
                 ELSE IF cv_language = "en" /\ "mongolian" \in LowerSet(parsed_cv.languages)
                 THEN Pts(5)
                 ELSE 0
             language_bonus == IF parsed_cv.languages = {} THEN 0 ELSE bilingual + cross
         IN  Min(required_match + preferred_match + language_bonus, Pts(100))

\* the loop over parsed_cv.work_experience in _calculate_experience_score
RECURSIVE relevance_bonus(_, _)
relevance_bonus(work_experience, title) ==
    IF work_experience = {} THEN 0
    ELSE LET work == CHOOSE w \in work_experience : TRUE
         IN  (IF work.role \cap title # {} THEN Pts(5) ELSE 0)
             + (IF work.tech /\ ({"engineer", "developer"} \cap title # {})
                THEN Pts(3) ELSE 0)
             + relevance_bonus(work_experience \ {work}, title)

\* ScoringAgent._calculate_experience_score
calculate_experience_score(parsed_cv, job) ==
    IF job.min_experience = NoneInt \/ job.min_experience = 0
    THEN Pts(100)
    ELSE LET candidate_experience == OrInt(parsed_cv.experience_years, 0)
             required_experience == job.min_experience
             meets == candidate_experience >= required_experience
             bonus == IF meets
                      THEN Min(Pts((candidate_experience - required_experience) * 2), Pts(20))
                      ELSE 0
             \* ratio, in hundredths of a score point
             ratio100 == (candidate_experience * Pts(100)) \div required_experience
             base_score ==
                 IF meets THEN Pts(100)
                 ELSE IF 10 * candidate_experience >= 8 * required_experience
                 THEN Pts(80) + (ratio100 - Pts(80))
                 ELSE IF 10 * candidate_experience >= 5 * required_experience
                 THEN Pts(50) + (ratio100 - Pts(50))
                 ELSE ratio100
         IN  Max(Min(base_score + bonus
                     + relevance_bonus(parsed_cv.work_experience, job.title), Pts(100)), 0)

\* ScoringAgent._calculate_education_score
calculate_education_score(parsed_cv, job) ==
    IF job.education_requirements = {}
    THEN Pts(100)
    ELSE IF parsed_cv.education = {}
    THEN Pts(40)
    ELSE LET education_text == UNION parsed_cv.education
             base_score ==
                 IF "phd" \in education_text THEN Pts(100)
                 ELSE IF "master" \in education_text THEN Pts(95)
                 ELSE IF "bachelor" \in education_text THEN Pts(85)
                 ELSE IF "diploma" \in education_text THEN Pts(75)
                 ELSE IF "college" \in education_text THEN Pts(70)
                 ELSE Pts(50)
             cs == IF {"computer", "software"} \cap education_text # {}
                      /\ {"software", "engineer", "developer", "tech"} \cap job.description # {}
                   THEN Pts(10) ELSE 0
             business == IF {"business", "management"} \cap education_text # {}
                            /\ {"manager", "business", "strategy"} \cap job.description # {}
                         THEN Pts(10) ELSE 0
             stem == IF {"engineer", "science", "mathematics", "physics"} \cap education_text # {}
                        /\ {"engineer", "technical"} \cap job.description # {}
                     THEN Pts(8) ELSE 0
         IN  Min(base_score + cs + business + stem, Pts(100))

(***************************************************************************)
(* The LLM's answer to the analysis prompt of the scoring stage:           *)
(* [kind, cf].  kind "ok" is a JSON object whose cultural_fit_score is the *)
(* number cf; the other kinds are the call raising, text that is no JSON,  *)
(* a JSON value that is no object, an object without the key, and an       *)
(* object whose cultural_fit_score is null.                                *)
(***************************************************************************)
AnalysisKinds == {"ok", "raise", "bad_json", "not_object", "no_score_key", "null_score"}
NominalCulturalFit == 75
CulturalFitValues == {0 - 20, NominalCulturalFit, 150}
AnalysisResponses ==
    [kind : {"ok"}, cf : CulturalFitValues]
    \cup [kind : AnalysisKinds \ {"ok"}, cf : {NominalCulturalFit}]

AnalysisFaults(r) == IF r.kind = "ok" /\ r.cf = NominalCulturalFit THEN 0 ELSE 1

\* _get_llm_analysis without the max(0, min(100, ...)) of lines 357-358
get_llm_analysis_unclamped(r) ==
    [is_dict |-> r.kind # "not_object",
     has_score |-> r.kind \notin {"not_object", "no_score_key"},
     cultural_fit_score |-> IF r.kind = "ok" THEN r.cf
                            ELSE IF r.kind = "no_score_key" \/ r.kind = "not_object" THEN 0
                            ELSE 70,
     has_reasoning |-> r.kind \notin {"not_object", "no_score_key"},
     reasoning |-> "llm reasoning"]

\* an analysis whose failure defaults carry a cultural fit of 0 instead of 70
get_llm_analysis_failure_zero(r) ==
    CASE r.kind = "ok" ->
            [is_dict |-> TRUE, has_score |-> TRUE,
             cultural_fit_score |-> Max(0, Min(100, r.cf)),
             has_reasoning |-> TRUE, reasoning |-> "llm reasoning"]
      [] r.kind = "no_score_key" ->
            [is_dict |-> TRUE, has_score |-> FALSE, cultural_fit_score |-> 0,
             has_reasoning |-> FALSE, reasoning |-> ""]
      [] r.kind = "not_object" ->
            [is_dict |-> FALSE, has_score |-> FALSE, cultural_fit_score |-> 0,
             has_reasoning |-> FALSE, reasoning |-> ""]
      [] r.kind = "bad_json" ->
            [is_dict |-> TRUE, has_score |-> TRUE, cultural_fit_score |-> 0,
             has_reasoning |-> TRUE, reasoning |-> "Error in LLM analysis"]
      [] OTHER ->
            [is_dict |-> TRUE, has_score |-> TRUE, cultural_fit_score |-> 0,
             has_reasoning |-> TRUE, reasoning |-> "Error in analysis"]

\* ScoringAgent._get_llm_analysis: the value score_candidate receives
get_llm_analysis(r) ==
    CASE r.kind = "ok" ->
            [is_dict |-> TRUE, has_score |-> TRUE,
             cultural_fit_score |-> Max(0, Min(100, r.cf)),
             has_reasoning |-> TRUE, reasoning |-> "llm reasoning"]
      [] r.kind = "no_score_key" ->
            [is_dict |-> TRUE, has_score |-> FALSE, cultural_fit_score |-> 0,
             has_reasoning |-> FALSE, reasoning |-> ""]
      [] r.kind = "not_object" ->
            [is_dict |-> FALSE, has_score |-> FALSE, cultural_fit_score |-> 0,
             has_reasoning |-> FALSE, reasoning |-> ""]
      [] r.kind = "bad_json" ->
            [is_dict |-> TRUE, has_score |-> TRUE, cultural_fit_score |-> 70,
             has_reasoning |-> TRUE, reasoning |-> "Error in LLM analysis"]
      [] OTHER ->
            [is_dict |-> TRUE, has_score |-> TRUE, cultural_fit_score |-> 70,
             has_reasoning |-> TRUE, reasoning |-> "Error in analysis"]

\* score_candidate, lines 65-73: the weighted sum, capped at 100.  The
\* arguments are in score points (Pts), the result in overall points.
weighted_overall(skills_match_score, experience_score, education_score, cultural_fit) ==
    Min(skills_match_score * SCORING_WEIGHTS.skills
        + experience_score * SCORING_WEIGHTS.experience
        + education_score * SCORING_WEIGHTS.education
        + cultural_fit * SCORING_WEIGHTS.other,
        OverallPts(100))

\* ScoringAgent.score_candidate
score_candidate(parsed_cv, job, r) ==
    LET llm_analysis == get_llm_analysis(r)
        skills_match_score == calculate_skills_score(parsed_cv, job)
        experience_score == calculate_experience_score(parsed_cv, job)
        education_score == calculate_education_score(parsed_cv, job)
        cultural_fit == IF llm_analysis.has_score
                        THEN Pts(llm_analysis.cultural_fit_score) ELSE Pts(70)
    IN  IF ~llm_analysis.is_dict
        THEN \* llm_analysis.get raises AttributeError: the except branch
             [candidate_name |-> parsed_cv.name, file_name |-> parsed_cv.file_name,
              skills_match_score |-> 0, experience_score |-> 0, education_score |-> 0,
              overall_score |-> 0, reasoning |-> "Error occurred during scoring"]
        ELSE [candidate_name |-> parsed_cv.name, file_name |-> parsed_cv.file_name,
              skills_match_score |-> skills_match_score,
              experience_score |-> experience_score,
              education_score |-> education_score,
              overall_score |-> weighted_overall(skills_match_score, experience_score,
                                                 education_score, cultural_fit),
              reasoning |-> IF llm_analysis.has_reasoning THEN llm_analysis.reasoning
                            ELSE "Overall score"]

\* an ascending sort read backwards: descending, but equal scores change places
RECURSIVE InsertDescTiesReversed(_, _)
InsertDescTiesReversed(sorted, x) ==
    IF sorted = <<>> THEN <<x>>
    ELSE IF Head(sorted).overall_score > x.overall_score
    THEN <<Head(sorted)>> \o InsertDescTiesReversed(Tail(sorted), x)
    ELSE <<x>> \o sorted

\* a list left in the order the candidates were scored in
sort_not_done(scores) == scores

\* list.sort(key=lambda x: x.overall_score, reverse=True): a stable sort
RECURSIVE InsertDesc(_, _)
InsertDesc(sorted, x) ==
    IF sorted = <<>> THEN <<x>>
    ELSE IF Head(sorted).overall_score >= x.overall_score
    THEN <<Head(sorted)>> \o InsertDesc(Tail(sorted), x)
    ELSE <<x>> \o sorted

RECURSIVE SortDescFrom(_, _)
SortDescFrom(sorted, rest) ==
    IF rest = <<>> THEN sorted
    ELSE SortDescFrom(InsertDesc(sorted, Head(rest)), Tail(rest))

sort_by_overall_score_desc(scores) == SortDescFrom(<<>>, scores)

\* a batch loop without score_candidate's try/except: the first candidate
\* whose scoring raises ends the loop
RECURSIVE scores_until_failure(_, _, _, _)
scores_until_failure(parsed_cvs, job, responses, i) ==
    IF i > Len(parsed_cvs) \/ ~get_llm_analysis(responses[i]).is_dict THEN <<>>
    ELSE <<score_candidate(parsed_cvs[i], job, responses[i])>>
         \o scores_until_failure(parsed_cvs, job, responses, i + 1)

score_all_candidates_stopping_at_failure(parsed_cvs, job, responses) ==
    sort_by_overall_score_desc(scores_until_failure(parsed_cvs, job, responses, 1))

\* a scoring loop that collects the scores in a dict keyed by candidate
\* name: of two candidates of one name the later one stays
score_all_candidates_keyed_by_name(parsed_cvs, job, responses) ==
    LET all == [i \in 1..Len(parsed_cvs) |->
                   score_candidate(parsed_cvs[i], job, responses[i])]
        kept == {i \in 1..Len(all) :
                    \A k \in (i + 1)..Len(all) :
                        all[k].candidate_name # all[i].candidate_name}
        RECURSIVE collect(_)
        collect(i) == IF i > Len(all) THEN <<>>
                      ELSE (IF i \in kept THEN <<all[i]>> ELSE <<>>) \o collect(i + 1)
    IN  sort_by_overall_score_desc(collect(1))

\* ScoringAgent.score_all_candidates
score_all_candidates(parsed_cvs, job, responses) ==
    sort_by_overall_score_desc(
        [i \in 1..Len(parsed_cvs) |-> score_candidate(parsed_cvs[i], job, responses[i])])

(***************************************************************************)
(* Shortlisting (agents/shortlisting_agent.py).                            *)
(***************************************************************************)
\* a slice that forgets its bound
SliceToWhole(lst, n) == lst

\* a slice that stops one element early: lst[:n - 1] for the n >= 1 of the runs
SliceToOneShort(lst, n) == SubSeq(lst, 1, Min(Max(n - 1, 0), Len(lst)))

\* Python's lst[:n]
SliceTo(lst, n) ==
    IF n >= 0 THEN SubSeq(lst, 1, Min(n, Len(lst)))
    ELSE SubSeq(lst, 1, Max(Len(lst) + n, 0))

\* shortlist_candidates without its fallback: nobody qualifies, nobody is listed
shortlist_candidates_no_fallback(candidate_scores, max_candidates, min_score_threshold) ==
    LET qualified_candidates ==
            SelectSeq(candidate_scores,
                      LAMBDA c : c.overall_score >= OverallPts(min_score_threshold))
    IN  [shortlisted |-> SliceTo(sort_by_overall_score_desc(qualified_candidates),
                                 max_candidates),
         candidate_scores |-> candidate_scores,
         warned |-> FALSE]

\* a fallback that also cuts the caller's list at the limit, in place
shortlist_candidates_truncating_in_place(candidate_scores, max_candidates, min_score_threshold) ==
    IF candidate_scores = <<>>
    THEN [shortlisted |-> <<>>, candidate_scores |-> candidate_scores, warned |-> FALSE]
    ELSE LET qualified_candidates ==
                 SelectSeq(candidate_scores,
                           LAMBDA c : c.overall_score >= OverallPts(min_score_threshold))
             fallback == qualified_candidates = <<>>
             sorted == sort_by_overall_score_desc(
                           IF fallback THEN candidate_scores ELSE qualified_candidates)
         IN  [shortlisted |-> SliceTo(sorted, max_candidates),
              candidate_scores |-> IF fallback THEN SliceTo(sorted, max_candidates)
                                   ELSE candidate_scores,
              warned |-> fallback]

\* shortlist_candidates without its threshold filter: the best of all
shortlist_candidates_unfiltered(candidate_scores, max_candidates, min_score_threshold) ==
    [shortlisted |-> SliceTo(sort_by_overall_score_desc(candidate_scores), max_candidates),
     candidate_scores |-> candidate_scores,
     warned |-> FALSE]

\* ShortlistingAgent.shortlist_candidates.  Returns the shortlist, the
\* caller's list as the call leaves it (the fallback sorts it in place)
\* and whether the warning was printed.
shortlist_candidates(candidate_scores, max_candidates, min_score_threshold) ==
    IF candidate_scores = <<>>
    THEN [shortlisted |-> <<>>, candidate_scores |-> candidate_scores, warned |-> FALSE]
    ELSE LET qualified_candidates ==
                 SelectSeq(candidate_scores,
                           LAMBDA c : c.overall_score >= OverallPts(min_score_threshold))
             fallback == qualified_candidates = <<>>
             sorted == sort_by_overall_score_desc(
                           IF fallback THEN candidate_scores ELSE qualified_candidates)
         IN  [shortlisted |-> SliceTo(sorted, max_candidates),
              candidate_scores |-> IF fallback THEN sorted ELSE candidate_scores,
              warned |-> fallback]

(***************************************************************************)
(* Interview questions (agents/interview_agent.py).                        *)
(***************************************************************************)
Categories == {"technical", "behavioral", "role-specific", "general"}

\* the LLM's answer to a question prompt: a JSON array of two questions,
\* the call raising, text that is no JSON, or the empty array
QuestionKinds == {"ok", "raise", "bad_json", "empty_array"}

\* InterviewAgent._get_fallback_questions
get_fallback_questions(category) ==
    CASE category = "technical" ->
            <<[question |-> "Can you walk me through your approach to solving a complex technical problem?",
               category |-> "technical", difficulty |-> "medium"]>>
      [] category = "behavioral" ->
            <<[question |-> "Tell me about a time when you had to work with a difficult team member.",
               category |-> "behavioral", difficulty |-> "medium"]>>
      [] category = "role-specific" ->
            <<[question |-> "What interests you most about this particular role?",
               category |-> "role-specific", difficulty |-> "easy"]>>
      [] category = "general" ->
            <<[question |-> "Where do you see yourself in 5 years?",
               category |-> "general", difficulty |-> "easy"]>>
      [] OTHER -> <<>>

\* a question parser that gives up with an empty list when the call or the
\* JSON parsing fails
get_questions_from_llm_no_fallback(category, kind) ==
    IF kind = "ok"
    THEN <<[question |-> "llm question 1", category |-> category, difficulty |-> "medium"],
           [question |-> "llm question 2", category |-> category, difficulty |-> "hard"]>>
    ELSE <<>>

\* InterviewAgent._get_questions_from_llm
get_questions_from_llm(category, kind) ==
    CASE kind = "ok" ->
            <<[question |-> "llm question 1", category |-> category, difficulty |-> "medium"],
              [question |-> "llm question 2", category |-> category, difficulty |-> "hard"]>>
      [] kind = "empty_array" -> <<>>
      [] OTHER -> get_fallback_questions(category)

\* InterviewAgent.generate_questions_for_candidate; kinds maps each category
\* to the LLM's answer
generate_questions_for_candidate(candidate, job, kinds) ==
    LET technical_questions == get_questions_from_llm("technical", kinds["technical"])
        behavioral_questions == get_questions_from_llm("behavioral", kinds["behavioral"])
        role_specific_questions ==
            get_questions_from_llm("role-specific", kinds["role-specific"])
        general_questions == get_questions_from_llm("general", kinds["general"])
    IN  [candidate_name |-> candidate.candidate_name,
         job_title |-> job.title,
         technical_questions |-> technical_questions,
         behavioral_questions |-> behavioral_questions,
         role_specific_questions |-> role_specific_questions,
         total_questions |-> Len(technical_questions) + Len(behavioral_questions)
                             + Len(role_specific_questions) + Len(general_questions)]

\* InterviewAgent.generate_questions_for_all_candidates: a dict keyed by
\* candidate name; a later candidate of the same name overwrites an earlier one
generate_questions_for_all_candidates(shortlisted, job, kinds) ==
    LET names == {shortlisted[i].candidate_name : i \in 1..Len(shortlisted)}
        last(n) == CHOOSE i \in 1..Len(shortlisted) :
                      /\ shortlisted[i].candidate_name = n
                      /\ \A j \in 1..Len(shortlisted) :
                            shortlisted[j].candidate_name = n => j <= i
    IN  [n \in names |->
            generate_questions_for_candidate(shortlisted[last(n)], job, kinds[last(n)])]

(***************************************************************************)
(* Email drafts (agents/email_agent.py).                                   *)
(***************************************************************************)
\* the LLM's answer to a drafting prompt: subject and body both found, the
\* call raising, a body without a subject, or an empty answer
EmailKinds == {"ok", "raise", "no_subject", "empty"}

\* EmailAgent.detect_language_preference: more than 30% Cyrillic letters, or
\* at least two Mongolian keywords
detect_language_preference(job) ==
    LET total_alpha == job.letters.cyrillic + job.letters.latin
    IN  IF total_alpha > 0 /\ 10 * job.letters.cyrillic > 3 * total_alpha
        THEN "mn"
        ELSE IF job.keywords >= 2 THEN "mn" ELSE "en"

\* a subject or a body: where its text comes from ("llm", the
\* "fallback_templates" of _create_fallback_email, or the subject table
\* "Config.EMAIL_LANGUAGES"), the table entry used and the values
\* interpolated into it
EmailText(from, language, email_type, candidate, job) ==
    [from |-> from, language |-> language, email_type |-> email_type,
     candidate_name |-> candidate.candidate_name, company |-> job.company,
     job_title |-> job.title]

\* the empty string
EmptyText ==
    [from |-> "", language |-> "", email_type |-> "", candidate_name |-> "",
     company |-> "", job_title |-> {}]

\* EmailAgent._create_fallback_email
create_fallback_email(candidate, job, email_type, language) ==
    [recipient_name |-> candidate.candidate_name, email_type |-> email_type,
     subject |-> EmailText("fallback_templates", language, email_type, candidate, job),
     body |-> EmailText("fallback_templates", language, email_type, candidate, job)]

\* EmailAgent.draft_interview_invitation / draft_rejection_email /
\* draft_acknowledgment_email: the three share their structure. An answer
\* without a subject gets the subject of Config.EMAIL_LANGUAGES; an empty
\* answer gets that subject and an empty body.
draft_email(candidate, job, email_type, kind) ==
    LET language == detect_language_preference(job)
    IN  IF kind = "raise"
        THEN create_fallback_email(candidate, job, email_type, language)
        ELSE [recipient_name |-> candidate.candidate_name, email_type |-> email_type,
              subject |-> IF kind = "ok"
                          THEN EmailText("llm", language, email_type, candidate, job)
                          ELSE EmailText("Config.EMAIL_LANGUAGES", language, email_type,
                                         candidate, job),
              body |-> IF kind = "empty"
                       THEN EmptyText
                       ELSE EmailText("llm", language, email_type, candidate, job)]

\* EmailAgent.draft_emails_for_all_candidates; kinds[i] is the LLM's answer
\* for the i-th draft
draft_emails_for_all_candidates(all_candidates, shortlisted, job, kinds) ==
    LET shortlisted_names == {shortlisted[i].candidate_name : i \in 1..Len(shortlisted)}
        rejected == SelectSeq(all_candidates,
                              LAMBDA c : c.candidate_name \notin shortlisted_names)
        todo == [i \in 1..Len(shortlisted) |->
                    [c |-> shortlisted[i], t |-> "interview_invitation"]]
                \o [i \in 1..Len(rejected) |-> [c |-> rejected[i], t |-> "rejection"]]
                \o [i \in 1..Len(all_candidates) |->
                    [c |-> all_candidates[i], t |-> "acknowledgment"]]
    IN  [i \in 1..Len(todo) |-> draft_email(todo[i].c, job, todo[i].t, kinds[i])]

\* the number of drafts the call above makes
NumDrafts(all_candidates, shortlisted) ==
    LET shortlisted_names == {shortlisted[i].candidate_name : i \in 1..Len(shortlisted)}
    IN  Len(shortlisted)
        + Len(SelectSeq(all_candidates, LAMBDA c : c.candidate_name \notin shortlisted_names))
        + Len(all_candidates)

(***************************************************************************)
(* The state: models.AgentState, the two Config values the shortlisting    *)
(* stage reads at call time, and the observable effects of a run.          *)
(***************************************************************************)
VARIABLES
    job_description,                \* AgentState: id of the posting, or None
    cv_files,                       \* AgentState
    parsed_cvs,                     \* AgentState
    candidate_scores,               \* AgentState
    shortlisted_candidates,         \* AgentState
    interview_questions,            \* AgentState: candidate name -> question set
    email_drafts,                   \* AgentState
    current_step,                   \* AgentState
    errors,                         \* AgentState
    processing_status,              \* AgentState
    MAX_CANDIDATES_TO_SHORTLIST,    \* Config
    MINIMUM_SCORE_THRESHOLD,        \* Config
    pc,                             \* the node the graph runs next, "END", or a harness tag
    invoked,                        \* the stages run so far, in order
    budget,                         \* deviating environment outcomes still allowed
    warnings,                       \* "No candidates meet minimum score threshold" lines printed
    saved,                          \* snapshot files written by the finalize node
    save_failed,                    \* snapshot files whose save_json_output failed
    finalize_threw,                 \* the finalize node's try body raised
    mkdir_failed,                   \* create_output_directory raised
    probe                           \* inputs and results of the pure-function harnesses

agentVars == <<job_description, cv_files, parsed_cvs, candidate_scores,
               shortlisted_candidates, interview_questions, email_drafts,
               current_step, errors, processing_status>>
configVars == <<MAX_CANDIDATES_TO_SHORTLIST, MINIMUM_SCORE_THRESHOLD>>
finalizeVars == <<saved, save_failed, finalize_threw, mkdir_failed>>
vars == <<agentVars, configVars, pc, invoked, budget, warnings, finalizeVars, probe>>

\* The set of functions P -> values that differ from `nominal` at no more
\* than n places, each deviating value drawn from Deviations.
Choices(P, nominal, Deviations, n) ==
    UNION {{[p \in P |-> IF p \in F THEN d[p] ELSE nominal] : d \in [F -> Deviations]} :
           F \in {G \in SUBSET P : Cardinality(G) <= n}}

NumDeviations(f, nominal) == Cardinality({p \in DOMAIN f : f[p] # nominal})

\* Config.MINIMUM_SCORE_THRESHOLD values of the runs: the default, and one
\* that no nominal candidate reaches
Thresholds == {60, 99}

(***************************************************************************)
(* The five stage agents' process(state).                                  *)
(***************************************************************************)
\* Variants of the early return, each a slip the properties below must tell
\* from the code: returning without the entry, touching the status on the
\* way out, and assigning the list instead of appending to it.
MissingPrerequisiteSilent(msg) ==
    UNCHANGED <<agentVars, budget, warnings>>

MissingPrerequisiteMarksFailed(msg) ==
    /\ errors' = Append(errors, msg)
    /\ processing_status' = "failed"
    /\ UNCHANGED <<job_description, cv_files, parsed_cvs, candidate_scores,
                   shortlisted_candidates, interview_questions, email_drafts,
                   current_step, budget, warnings>>

MissingPrerequisiteOverwrites(msg) ==
    /\ errors' = <<msg>>
    /\ UNCHANGED <<job_description, cv_files, parsed_cvs, candidate_scores,
                   shortlisted_candidates, interview_questions, email_drafts,
                   current_step, processing_status, budget, warnings>>

\* `state.errors.append(msg); return state`: the early return every
\* process() takes when what it needs is missing
MissingPrerequisite(msg) ==
    /\ errors' = Append(errors, msg)
    /\ UNCHANGED <<job_description, cv_files, parsed_cvs, candidate_scores,
                   shortlisted_candidates, interview_questions, email_drafts,
                   current_step, processing_status, budget, warnings>>

NominalParse == [text_ok |-> TRUE, llm |-> "ok"]
DeviatingParses == {[text_ok |-> FALSE, llm |-> "ok"]}
                   \cup {[text_ok |-> TRUE, llm |-> k] : k \in CVResponseKinds \ {"ok"}}

\* CVParserAgent.process
CVParserProcess ==
    IF cv_files = <<>>
    THEN MissingPrerequisite("No CV files provided for parsing")
    ELSE \E outcomes \in Choices(1..Len(cv_files), NominalParse, DeviatingParses, budget) :
            /\ parsed_cvs' = parse_multiple_cvs(cv_files, outcomes)
            /\ current_step' = "cvs_parsed"
            /\ budget' = budget - NumDeviations(outcomes, NominalParse)
            /\ UNCHANGED <<job_description, cv_files, candidate_scores,
                           shortlisted_candidates, interview_questions, email_drafts,
                           errors, processing_status, warnings>>

NominalAnalysis == [kind |-> "ok", cf |-> NominalCulturalFit]

\* ScoringAgent.process
ScoringProcess ==
    IF parsed_cvs = <<>>
    THEN MissingPrerequisite("No parsed CVs available for scoring")
    ELSE IF job_description = None
    THEN MissingPrerequisite("No job description available for scoring")
    ELSE \E responses \in Choices(1..Len(parsed_cvs), NominalAnalysis,
                                  AnalysisResponses \ {NominalAnalysis}, budget) :
            /\ candidate_scores' =
                   score_all_candidates(parsed_cvs, Job(job_description), responses)
            /\ current_step' = "candidates_scored"
            /\ budget' = budget - NumDeviations(responses, NominalAnalysis)
            /\ UNCHANGED <<job_description, cv_files, parsed_cvs,
                           shortlisted_candidates, interview_questions, email_drafts,
                           errors, processing_status, warnings>>

\* ShortlistingAgent.process
ShortlistingProcess ==
    IF candidate_scores = <<>>
    THEN MissingPrerequisite("No candidate scores available for shortlisting")
    ELSE LET r == shortlist_candidates(candidate_scores, MAX_CANDIDATES_TO_SHORTLIST,
                                       MINIMUM_SCORE_THRESHOLD)
         IN  /\ shortlisted_candidates' = r.shortlisted
             /\ candidate_scores' = r.candidate_scores
             /\ warnings' = IF r.warned THEN warnings + 1 ELSE warnings
             /\ current_step' = "candidates_shortlisted"
             /\ UNCHANGED <<job_description, cv_files, parsed_cvs, interview_questions,
                            email_drafts, errors, processing_status, budget>>

\* InterviewAgent.process
InterviewProcess ==
    IF shortlisted_candidates = <<>>
    THEN MissingPrerequisite("No shortlisted candidates available for interview question generation")
    ELSE IF job_description = None
    THEN MissingPrerequisite("No job description available for interview question generation")
    ELSE \E answers \in Choices((1..Len(shortlisted_candidates)) \X Categories, "ok",
                                QuestionKinds \ {"ok"}, budget) :
            LET kinds == [i \in 1..Len(shortlisted_candidates) |->
                             [c \in Categories |-> answers[<<i, c>>]]]
            IN  /\ interview_questions' =
                       generate_questions_for_all_candidates(
                           shortlisted_candidates, Job(job_description), kinds)
                /\ current_step' = "questions_generated"
                /\ budget' = budget - NumDeviations(answers, "ok")
                /\ UNCHANGED <<job_description, cv_files, parsed_cvs, candidate_scores,
                               shortlisted_candidates, email_drafts, errors,
                               processing_status, warnings>>

\* an email stage that reports every missing input instead of returning at
\* the first one
EmailProcessReportingAll ==
    LET missing ==
            (IF candidate_scores = <<>>
             THEN <<"No candidate scores available for email drafting">> ELSE <<>>)
            \o (IF shortlisted_candidates = <<>>
                THEN <<"No shortlisted candidates available for email drafting">>
                ELSE <<>>)
            \o (IF job_description = None
                THEN <<"No job description available for email drafting">> ELSE <<>>)
    IN  IF missing # <<>>
        THEN /\ errors' = errors \o missing
             /\ UNCHANGED <<job_description, cv_files, parsed_cvs, candidate_scores,
                            shortlisted_candidates, interview_questions, email_drafts,
                            current_step, processing_status, budget, warnings>>
        ELSE \E kinds \in Choices(1..NumDrafts(candidate_scores, shortlisted_candidates),
                                  "ok", EmailKinds \ {"ok"}, budget) :
                /\ email_drafts' =
                       draft_emails_for_all_candidates(candidate_scores,
                                                       shortlisted_candidates,
                                                       Job(job_description), kinds)
                /\ current_step' = "emails_drafted"
                /\ budget' = budget - NumDeviations(kinds, "ok")
                /\ UNCHANGED <<job_description, cv_files, parsed_cvs, candidate_scores,
                               shortlisted_candidates, interview_questions, errors,
                               processing_status, warnings>>

\* EmailAgent.process
EmailProcess ==
    IF candidate_scores = <<>>
    THEN MissingPrerequisite("No candidate scores available for email drafting")
    ELSE IF shortlisted_candidates = <<>>
    THEN MissingPrerequisite("No shortlisted candidates available for email drafting")
    ELSE IF job_description = None
    THEN MissingPrerequisite("No job description available for email drafting")
    ELSE \E kinds \in Choices(1..NumDrafts(candidate_scores, shortlisted_candidates), "ok",
                              EmailKinds \ {"ok"}, budget) :
            /\ email_drafts' =
                   draft_emails_for_all_candidates(candidate_scores, shortlisted_candidates,
                                                   Job(job_description), kinds)
            /\ current_step' = "emails_drafted"
            /\ budget' = budget - NumDeviations(kinds, "ok")
            /\ UNCHANGED <<job_description, cv_files, parsed_cvs, candidate_scores,
                           shortlisted_candidates, interview_questions, errors,
                           processing_status, warnings>>

(***************************************************************************)
(* The workflow graph (workflow.py).                                       *)
(***************************************************************************)
\* HRWorkflow._create_workflow: set_entry_point and add_edge
EntryPoint == "parse_cvs"

\* a graph with a conditional edge that jumps to the finalize node as soon
\* as a stage has recorded an error
NextNodeSkipOnError(node) ==
    CASE node = "finalize_results" -> "END"
      [] node = "draft_emails" -> "finalize_results"
      [] node \in {"parse_cvs", "score_candidates", "shortlist_candidates",
                   "generate_questions"} /\ errors' # <<>> -> "finalize_results"
      [] node = "parse_cvs" -> "score_candidates"
      [] node = "score_candidates" -> "shortlist_candidates"
      [] node = "shortlist_candidates" -> "generate_questions"
      [] node = "generate_questions" -> "draft_emails"
      [] OTHER -> "END"

\* a graph with a cycle: after the emails the run goes back to shortlisting
NextNodeCyclic(node) ==
    CASE node = "parse_cvs" -> "score_candidates"
      [] node = "score_candidates" -> "shortlist_candidates"
      [] node = "shortlist_candidates" -> "generate_questions"
      [] node = "generate_questions" -> "draft_emails"
      [] node = "draft_emails" /\ Len(invoked) < 6 -> "shortlist_candidates"
      [] node = "draft_emails" -> "finalize_results"
      [] OTHER -> "END"

NextNode(node) ==
    CASE node = "parse_cvs" -> "score_candidates"
      [] node = "score_candidates" -> "shortlist_candidates"
      [] node = "shortlist_candidates" -> "generate_questions"
      [] node = "generate_questions" -> "draft_emails"
      [] node = "draft_emails" -> "finalize_results"
      [] OTHER -> "END"

\* a node ran: the graph moves along its edge
Ran(node) ==
    /\ pc = node
    /\ pc' = NextNode(node)
    /\ invoked' = Append(invoked, node)

\* HRWorkflow._parse_cvs_node .. _draft_emails_node
ParseCvsNode ==
    /\ pc = "parse_cvs"
    /\ CVParserProcess
    /\ Ran("parse_cvs")
    /\ UNCHANGED <<configVars, finalizeVars, probe>>

ScoreCandidatesNode ==
    /\ pc = "score_candidates"
    /\ ScoringProcess
    /\ Ran("score_candidates")
    /\ UNCHANGED <<configVars, finalizeVars, probe>>

ShortlistCandidatesNode ==
    /\ pc = "shortlist_candidates"
    /\ ShortlistingProcess
    /\ Ran("shortlist_candidates")
    /\ UNCHANGED <<configVars, finalizeVars, probe>>

GenerateQuestionsNode ==
    /\ pc = "generate_questions"
    /\ InterviewProcess
    /\ Ran("generate_questions")
    /\ UNCHANGED <<configVars, finalizeVars, probe>>

DraftEmailsNode ==
    /\ pc = "draft_emails"
    /\ EmailProcess
    /\ Ran("draft_emails")
    /\ UNCHANGED <<configVars, finalizeVars, probe>>

\* a save_json_output without its try/except: a failing write propagates
save_json_output_raising(write_fails) == [written |-> ~write_fails, raised |-> write_fails]

\* utils.save_json_output: a failing write is printed, never raised
save_json_output(write_fails) == [written |-> ~write_fails, raised |-> FALSE]

\* the snapshot files the finalize node attempts: one per populated
\* collection, and the complete state always
Populated ==
    {"complete_workflow_state.json"}
    \cup (IF parsed_cvs # <<>> THEN {"parsed_cvs.json"} ELSE {})
    \cup (IF candidate_scores # <<>> THEN {"candidate_scores.json"} ELSE {})
    \cup (IF shortlisted_candidates # <<>> THEN {"shortlisted_candidates.json"} ELSE {})
    \cup (IF DOMAIN interview_questions # {} THEN {"interview_questions.json"} ELSE {})
    \cup (IF email_drafts # <<>> THEN {"email_drafts.json"} ELSE {})

\* HRWorkflow._finalize_results_node.  mkdir_ok: create_output_directory
\* returned; failing: the files whose write fails.
FinalizeResultsNode ==
    /\ pc = "finalize_results"
    /\ \E mkdir_ok \in BOOLEAN, failing \in SUBSET Populated :
          LET threw == \/ ~mkdir_ok
                       \/ \E u \in Populated : save_json_output(u \in failing).raised
          IN  /\ (IF mkdir_ok THEN 0 ELSE 1) + Cardinality(failing) <= budget
              /\ ~mkdir_ok => failing = {}
              /\ budget' = budget - ((IF mkdir_ok THEN 0 ELSE 1) + Cardinality(failing))
              /\ finalize_threw' = threw
              /\ mkdir_failed' = ~mkdir_ok
              /\ saved' = IF mkdir_ok
                          THEN {u \in Populated : save_json_output(u \in failing).written}
                          ELSE {}
              /\ save_failed' = failing
              /\ IF threw
                 THEN /\ errors' = Append(errors, "Error finalizing results")
                      /\ processing_status' = "failed"
                      /\ UNCHANGED current_step
                 ELSE /\ processing_status' = "completed"
                      /\ current_step' = "completed"
                      /\ UNCHANGED errors
    /\ Ran("finalize_results")
    /\ UNCHANGED <<job_description, cv_files, parsed_cvs, candidate_scores,
                   shortlisted_candidates, interview_questions, email_drafts,
                   configVars, warnings, probe>>

\* HRWorkflow._calculate_progress
calculate_progress(step) ==
    CASE step = "start" -> 0
      [] step = "parsing_cvs" -> 10
      [] step = "cvs_parsed" -> 20
      [] step = "scoring_candidates" -> 30
      [] step = "candidates_scored" -> 50
      [] step = "shortlisting_candidates" -> 60
      [] step = "candidates_shortlisted" -> 70
      [] step = "generating_questions" -> 80
      [] step = "questions_generated" -> 85
      [] step = "drafting_emails" -> 90
      [] step = "emails_drafted" -> 95
      [] step = "completed" -> 100
      [] OTHER -> 0

\* the fields of a fresh AgentState (models.py defaults)
FreshState ==
    /\ parsed_cvs = <<>>
    /\ candidate_scores = <<>>
    /\ shortlisted_candidates = <<>>
    /\ interview_questions = <<>>
    /\ email_drafts = <<>>
    /\ current_step = "start"
    /\ errors = <<>>

NoEffects ==
    /\ invoked = <<>>
    /\ warnings = 0
    /\ saved = {}
    /\ save_failed = {}
    /\ finalize_threw = FALSE
    /\ mkdir_failed = FALSE

\* HRWorkflow.run_workflow: the initial state it builds.  It reads
\* job_description.title before anything else, so a run has a posting.
Init ==
    /\ job_description \in JobIds
    /\ cv_files \in SeqsUpTo(Files, MaxFiles)
    /\ FreshState
    /\ processing_status = "running"
    /\ MAX_CANDIDATES_TO_SHORTLIST \in 1..MaxShortlist
    /\ MINIMUM_SCORE_THRESHOLD \in Thresholds
    /\ pc = EntryPoint
    /\ budget = MaxFaults
    /\ NoEffects
    /\ probe = 0

Next ==
    \/ ParseCvsNode
    \/ ScoreCandidatesNode
    \/ ShortlistCandidatesNode
    \/ GenerateQuestionsNode
    \/ DraftEmailsNode
    \/ FinalizeResultsNode

Spec == Init /\ [][Next]_vars

(***************************************************************************)
(* The stage harness: any stage's process() called on a state, in any      *)
(* order, starting from a fresh AgentState with or without a posting.      *)
(***************************************************************************)
Called(stage) ==
    /\ pc = "stage_call"
    /\ Len(invoked) < MaxCalls
    /\ invoked' = Append(invoked, stage)
    /\ UNCHANGED <<pc, configVars, finalizeVars, probe>>

CallParse == Called("parse_cvs") /\ CVParserProcess
CallScore == Called("score_candidates") /\ ScoringProcess
CallShortlist == Called("shortlist_candidates") /\ ShortlistingProcess
CallInterview == Called("generate_questions") /\ InterviewProcess
CallEmail == Called("draft_emails") /\ EmailProcess

\* the caller of a stage owns the AgentState: it may drop the posting
\* (job_description is Optional) between two calls
CallerClearsJob ==
    /\ pc = "stage_call"
    /\ job_description # None
    /\ job_description' = None
    /\ UNCHANGED <<cv_files, parsed_cvs, candidate_scores, shortlisted_candidates,
                   interview_questions, email_drafts, current_step, errors,
                   processing_status, configVars, pc, invoked, budget, warnings,
                   finalizeVars, probe>>

InitStages ==
    /\ job_description \in JobIds \cup {None}
    /\ cv_files \in SeqsUpTo(Files, StageFiles)
    /\ FreshState
    /\ processing_status = "pending"
    /\ MAX_CANDIDATES_TO_SHORTLIST \in 1..MaxShortlist
    /\ MINIMUM_SCORE_THRESHOLD \in Thresholds
    /\ pc = "stage_call"
    /\ budget = 0
    /\ NoEffects
    /\ probe = 0

NextStages ==
    \/ CallParse
    \/ CallScore
    \/ CallShortlist
    \/ CallInterview
    \/ CallEmail
    \/ CallerClearsJob

SpecStages == InitStages /\ [][NextStages]_vars

(***************************************************************************)
(* The shortlisting harness: shortlist_candidates applied to any score     *)
(* list, sorted or not, under any configured limit and threshold, and then *)
(* applied once more to its own result.                                    *)
(***************************************************************************)
\* a state no stage has touched and no graph runs on
Idle ==
    /\ job_description = None
    /\ cv_files = <<>>
    /\ FreshState
    /\ processing_status = "pending"
    /\ budget = 0
    /\ NoEffects

ProbeNames == {"Ann", "Bob"}
ProbeOveralls == {40, 60, 85}
ProbeThresholds == {0, 60, 100}

\* a CandidateScore of the given name and overall score
ProbeScore(name, overall) ==
    [candidate_name |-> name, file_name |-> "cv.pdf",
     skills_match_score |-> Pts(overall), experience_score |-> Pts(overall),
     education_score |-> Pts(overall), overall_score |-> OverallPts(overall),
     reasoning |-> "Overall score"]

ProbeScores == {ProbeScore(n, o) : n \in ProbeNames, o \in ProbeOveralls}

InitShortlist ==
    /\ Idle
    /\ MAX_CANDIDATES_TO_SHORTLIST \in 1..(MaxShortlist + 1)
    /\ MINIMUM_SCORE_THRESHOLD \in ProbeThresholds
    /\ pc = "shortlist_probe"
    /\ probe \in [stage : {"input"}, scores : SeqsUpTo(ProbeScores, MaxScores),
                   first : {<<>>}, after : {<<>>}, warned : {FALSE}, second : {<<>>}]

\* shortlist_candidates(scores, Config.MAX_CANDIDATES_TO_SHORTLIST,
\*                      Config.MINIMUM_SCORE_THRESHOLD)
ShortlistOnce ==
    /\ pc = "shortlist_probe"
    /\ probe.stage = "input"
    /\ LET r == shortlist_candidates(probe.scores, MAX_CANDIDATES_TO_SHORTLIST,
                                     MINIMUM_SCORE_THRESHOLD)
       IN  probe' = [probe EXCEPT !.stage = "once", !.first = r.shortlisted,
                                  !.after = r.candidate_scores, !.warned = r.warned]
    /\ UNCHANGED <<agentVars, configVars, pc, invoked, budget, warnings, finalizeVars>>

\* the same call on the list the first call returned
ShortlistAgain ==
    /\ pc = "shortlist_probe"
    /\ probe.stage = "once"
    /\ LET r == shortlist_candidates(probe.first, MAX_CANDIDATES_TO_SHORTLIST,
                                     MINIMUM_SCORE_THRESHOLD)
       IN  probe' = [probe EXCEPT !.stage = "twice", !.second = r.shortlisted]
    /\ UNCHANGED <<agentVars, configVars, pc, invoked, budget, warnings, finalizeVars>>

NextShortlist ==
    \/ ShortlistOnce
    \/ ShortlistAgain

SpecShortlist == InitShortlist /\ [][NextShortlist]_vars

(***************************************************************************)
(* The scoring harness: score_candidate on a parsed CV, a posting and an   *)
(* LLM answer, and the weighted sum on two component vectors that differ   *)
(* in one component only.                                                  *)
(***************************************************************************)
Components == {"skills", "experience", "education", "cultural_fit"}
ProbeGrid == {0, 40, 100}
ProbeFits == {0 - 20, 0, NominalCulturalFit, 100, 150}

\* the values a component can take: the three computed scores lie in
\* 0..100, the cultural-fit value is whatever number the LLM wrote
ComponentValues(c) == IF c = "cultural_fit" THEN ProbeFits ELSE ProbeGrid

\* score_candidate's overall score for the component vector v, the
\* cultural-fit value passing through _get_llm_analysis
overall_of(v) ==
    weighted_overall(
        Pts(v.skills), Pts(v.experience), Pts(v.education),
        Pts(get_llm_analysis([kind |-> "ok", cf |-> v.cultural_fit]).cultural_fit_score))

InitScore ==
    /\ Idle
    /\ MAX_CANDIDATES_TO_SHORTLIST = 1
    /\ MINIMUM_SCORE_THRESHOLD = 60
    /\ pc = "score_probe"
    /\ \E f \in Files, j \in JobIds, r \in AnalysisResponses,
          base \in [skills : ProbeGrid, experience : ProbeGrid, education : ProbeGrid,
                    cultural_fit : ProbeFits],
          which \in Components :
          \E raised \in ComponentValues(which) :
             /\ raised >= base[which]
             /\ probe = [stage |-> "input", cv |-> parse_cv(f, TRUE, "ok"), job |-> j,
                         r |-> r, base |-> base, which |-> which, raised |-> raised,
                         overall_score |-> 0, overall_base |-> 0, overall_raised |-> 0]

ScoreProbe ==
    /\ pc = "score_probe"
    /\ probe.stage = "input"
    /\ probe' = [probe EXCEPT
                    !.stage = "scored",
                    !.overall_score =
                        score_candidate(probe.cv, Job(probe.job), probe.r).overall_score,
                    !.overall_base = overall_of(probe.base),
                    !.overall_raised =
                        overall_of([probe.base EXCEPT ![probe.which] = probe.raised])]
    /\ UNCHANGED <<agentVars, configVars, pc, invoked, budget, warnings, finalizeVars>>

NextScore == ScoreProbe

SpecScore == InitScore /\ [][NextScore]_vars

(***************************************************************************)
(* The skills harness: _calculate_skills_score on any candidate skills and *)
(* languages against any required and preferred skills of a posting.       *)
(***************************************************************************)
ProbeSkills == {"Python", "Sql", "Java"}
ProbeLanguages == {"English", "Mongolian"}
ProbeRequired == {"Python", "SQL"}
ProbePreferred == {"AWS", "Java"}

InitSkills ==
    /\ Idle
    /\ MAX_CANDIDATES_TO_SHORTLIST = 1
    /\ MINIMUM_SCORE_THRESHOLD = 60
    /\ pc = "skills_probe"
    /\ \E skills \in SUBSET ProbeSkills, languages \in SUBSET ProbeLanguages,
          required_skills \in SUBSET ProbeRequired,
          preferred_skills \in SUBSET ProbePreferred :
          probe = [stage |-> "input",
                   cv |-> [parse_cv("cvs/a.txt", TRUE, "ok") EXCEPT
                              !.skills = skills, !.languages = languages],
                   job |-> [Job("dev") EXCEPT !.required_skills = required_skills,
                                              !.preferred_skills = preferred_skills],
                   skills_score |-> 0]

SkillsProbe ==
    /\ pc = "skills_probe"
    /\ probe.stage = "input"
    /\ probe' = [probe EXCEPT !.stage = "scored",
                              !.skills_score = calculate_skills_score(probe.cv, probe.job)]
    /\ UNCHANGED <<agentVars, configVars, pc, invoked, budget, warnings, finalizeVars>>

NextSkills == SkillsProbe

SpecSkills == InitSkills /\ [][NextSkills]_vars

(***************************************************************************)
(* The parsing harness: parse_multiple_cvs on any list of files, with any  *)
(* outcome of the reader and of the LLM for each file.                     *)
(***************************************************************************)
AllParses == {NominalParse} \cup DeviatingParses

InitParse ==
    /\ Idle
    /\ MAX_CANDIDATES_TO_SHORTLIST = 1
    /\ MINIMUM_SCORE_THRESHOLD = 60
    /\ pc = "parse_probe"
    /\ \E files \in SeqsUpTo(Files, MaxFiles) :
          \E outcomes \in [1..Len(files) -> AllParses] :
             probe = [stage |-> "input", files |-> files, outcomes |-> outcomes,
                      llm_data |-> <<>>, parsed |-> <<>>]

ParseProbe ==
    /\ pc = "parse_probe"
    /\ probe.stage = "input"
    /\ probe' = [probe EXCEPT
                    !.stage = "parsed",
                    !.llm_data = [i \in 1..Len(probe.files) |->
                                     extract_structured_data_with_llm(
                                         probe.files[i], probe.outcomes[i].llm)],
                    !.parsed = parse_multiple_cvs(probe.files, probe.outcomes)]
    /\ UNCHANGED <<agentVars, configVars, pc, invoked, budget, warnings, finalizeVars>>

NextParse == ParseProbe

SpecParse == InitParse /\ [][NextParse]_vars

(***************************************************************************)
(* The batch-scoring harness: score_all_candidates on any list of parsed   *)
(* CVs and any posting, with any answer of the LLM for each candidate.     *)
(***************************************************************************)
InitBatch ==
    /\ Idle
    /\ MAX_CANDIDATES_TO_SHORTLIST = 1
    /\ MINIMUM_SCORE_THRESHOLD = 60
    /\ pc = "batch_probe"
    /\ \E files \in SeqsUpTo(Files, MaxFiles), j \in JobIds :
          \E responses \in [1..Len(files) -> AnalysisResponses] :
             probe = [stage |-> "input",
                      cvs |-> [i \in 1..Len(files) |-> parse_cv(files[i], TRUE, "ok")],
                      job |-> j, responses |-> responses, scores |-> <<>>]

BatchProbe ==
    /\ pc = "batch_probe"
    /\ probe.stage = "input"
    /\ probe' = [probe EXCEPT
                    !.stage = "scored",
                    !.scores = score_all_candidates(probe.cvs, Job(probe.job),
                                                    probe.responses)]
    /\ UNCHANGED <<agentVars, configVars, pc, invoked, budget, warnings, finalizeVars>>

NextBatch == BatchProbe

SpecBatch == InitBatch /\ [][NextBatch]_vars

(***************************************************************************)
(* The question harness: generate_questions_for_all_candidates on any      *)
(* shortlist (two candidates may bear the same name) and any posting; per  *)
(* candidate the LLM answers all four prompts well, fails one of them, or  *)
(* fails all of them the same way.                                         *)
(***************************************************************************)
ListedOveralls == {60, 85}
ListedScores == {ProbeScore(n, o) : n \in ProbeNames, o \in ListedOveralls}

CandidateAnswers ==
    Choices(Categories, "ok", QuestionKinds \ {"ok"}, 1)
    \cup {[c \in Categories |-> k] : k \in {"raise", "bad_json"}}

\* a shortlist is a prefix of the ranking, hence in descending order
ListedShortlists ==
    {s \in SeqsUpTo(ListedScores, MaxShortlist) :
        \A i \in 1..(Len(s) - 1) : s[i].overall_score >= s[i + 1].overall_score}

InitQuestions ==
    /\ Idle
    /\ MAX_CANDIDATES_TO_SHORTLIST = 1
    /\ MINIMUM_SCORE_THRESHOLD = 60
    /\ pc = "questions_probe"
    /\ \E shortlisted \in ListedShortlists, j \in JobIds :
          \E kinds \in [1..Len(shortlisted) -> CandidateAnswers] :
             probe = [stage |-> "input", shortlisted |-> shortlisted, job |-> j,
                      kinds |-> kinds, generated |-> <<>>, sets |-> <<>>,
                      questions |-> <<>>]

QuestionsProbe ==
    /\ pc = "questions_probe"
    /\ probe.stage = "input"
    /\ probe' = [probe EXCEPT
                    !.stage = "generated",
                    !.generated = [i \in 1..Len(probe.shortlisted) |->
                                      [c \in Categories |->
                                          get_questions_from_llm(c, probe.kinds[i][c])]],
                    !.sets = [i \in 1..Len(probe.shortlisted) |->
                                 generate_questions_for_candidate(
                                     probe.shortlisted[i], Job(probe.job), probe.kinds[i])],
                    !.questions = generate_questions_for_all_candidates(
                                      probe.shortlisted, Job(probe.job), probe.kinds)]
    /\ UNCHANGED <<agentVars, configVars, pc, invoked, budget, warnings, finalizeVars>>

NextQuestions == QuestionsProbe

SpecQuestions == InitQuestions /\ [][NextQuestions]_vars

(***************************************************************************)
(* The email harness: draft_emails_for_all_candidates on any ranking (two  *)
(* candidates may bear the same name), a non-empty prefix of it as the     *)
(* shortlist, an English or a Mongolian posting, and the LLM answering     *)
(* every prompt well, failing one draft, or failing all the same way.      *)
(***************************************************************************)
EmailJobIds == {"dev", "mn"}

Rankings ==
    {s \in SeqsUpTo(ListedScores, MaxScores) :
        \A i \in 1..(Len(s) - 1) : s[i].overall_score >= s[i + 1].overall_score}

DraftAnswers(n) ==
    Choices(1..n, "ok", EmailKinds \ {"ok"}, 1)
    \cup {[i \in 1..n |-> k] : k \in {"raise", "empty"}}

InitEmails ==
    /\ Idle
    /\ MAX_CANDIDATES_TO_SHORTLIST = 1
    /\ MINIMUM_SCORE_THRESHOLD = 60
    /\ pc = "emails_probe"
    /\ \E scored \in Rankings \ {<<>>}, j \in EmailJobIds :
          \E limit \in 1..Min(Len(scored), MaxShortlist) :
             \E kinds \in DraftAnswers(NumDrafts(scored, SliceTo(scored, limit))) :
                probe = [stage |-> "input", scored |-> scored,
                         shortlisted |-> SliceTo(scored, limit), job |-> j,
                         kinds |-> kinds, drafts |-> <<>>]

EmailsProbe ==
    /\ pc = "emails_probe"
    /\ probe.stage = "input"
    /\ probe' = [probe EXCEPT
                    !.stage = "drafted",
                    !.drafts = draft_emails_for_all_candidates(
                                   probe.scored, probe.shortlisted, Job(probe.job),
                                   probe.kinds)]
    /\ UNCHANGED <<agentVars, configVars, pc, invoked, budget, warnings, finalizeVars>>

NextEmails == EmailsProbe

SpecEmails == InitEmails /\ [][NextEmails]_vars

(***************************************************************************)
(* The scenario harness: the strong and the weak candidate of the sample   *)
(* documents scored against the "dev" posting (with or without preferred   *)
(* skills and education requirements) under every pair of cultural-fit     *)
(* values the LLM can report, then shortlisted with a limit of one and     *)
(* mailed.                                                                 *)
(***************************************************************************)
FitRange == 0..100

ScenarioJobs ==
    {[Job("dev") EXCEPT !.preferred_skills = p, !.education_requirements = e] :
        p \in {{}, {"AWS"}}, e \in {{}, {"Bachelor"}}}

InitScenario ==
    /\ Idle
    /\ MAX_CANDIDATES_TO_SHORTLIST = 1
    /\ MINIMUM_SCORE_THRESHOLD \in Thresholds
    /\ pc = "scenario_probe"
    /\ \E files \in {<<"cvs/a.txt", "cvs/b.txt">>, <<"cvs/b.txt", "cvs/a.txt">>},
          job \in ScenarioJobs, fits \in [1..2 -> FitRange] :
          probe = [stage |-> "input",
                   cvs |-> [i \in 1..2 |-> parse_cv(files[i], TRUE, "ok")],
                   job |-> job, fits |-> fits,
                   scores |-> <<>>, shortlisted |-> <<>>, drafts |-> <<>>]

\* score_all_candidates, shortlist_candidates and
\* draft_emails_for_all_candidates in a row, as the stages call them
ScenarioProbe ==
    /\ pc = "scenario_probe"
    /\ probe.stage = "input"
    /\ LET scores == score_all_candidates(
                         probe.cvs, probe.job,
                         [i \in 1..2 |-> [kind |-> "ok", cf |-> probe.fits[i]]])
           r == shortlist_candidates(scores, MAX_CANDIDATES_TO_SHORTLIST,
                                     MINIMUM_SCORE_THRESHOLD)
       IN  probe' = [probe EXCEPT
                        !.stage = "mailed",
                        !.scores = r.candidate_scores,
                        !.shortlisted = r.shortlisted,
                        !.drafts = draft_emails_for_all_candidates(
                                       r.candidate_scores, r.shortlisted, probe.job,
                                       [d \in 1..NumDrafts(r.candidate_scores,
                                                           r.shortlisted) |-> "ok"])]
    /\ UNCHANGED <<agentVars, configVars, pc, invoked, budget, warnings, finalizeVars>>

NextScenario == ScenarioProbe

SpecScenario == InitScenario /\ [][NextScenario]_vars

(***************************************************************************)
(* The LLM-call harness: one LLM call of a stage, or of the retry helper   *)
(* of agents/base_agent.py, against every sequence of outcomes that        *)
(* successive self.llm.invoke attempts can have.                           *)
(***************************************************************************)
\* the default of _execute_llm_call's max_retries parameter
max_retries == 3

\* the call sites of self.llm.invoke in the four LLM-using stages
StageCallSites == {"cv_analysis", "scoring", "question_generation", "email_drafting"}

\* what the attempts of one call would do, should they be made: attempt i
\* raises, or returns the response numbered i
AttemptOutcomes == [1..(max_retries + 1) -> {"raise", "ok"}]

\* EnhancedBaseAgent._execute_llm_call from attempt number `attempt` (counted
\* from 0) on: the attempts made, the waits slept between them, and the
\* response returned (0: the last attempt's exception is re-raised)
RECURSIVE execute_llm_call(_, _, _)
execute_llm_call(outcomes, attempt, waits) ==
    IF outcomes[attempt + 1] = "ok"
    THEN [attempts |-> attempt + 1, waits |-> waits, response |-> attempt + 1]
    ELSE IF attempt < max_retries - 1
    THEN execute_llm_call(outcomes, attempt + 1, Append(waits, 2 ^ attempt))
    ELSE [attempts |-> attempt + 1, waits |-> waits, response |-> 0]

\* the try block of _extract_structured_data_with_llm, _get_llm_analysis,
\* _get_questions_from_llm and the draft_* methods: self.llm.invoke is
\* called once, and its exception goes to the except branch
invoke_once(outcomes) ==
    [attempts |-> 1, waits |-> <<>>,
     response |-> IF outcomes[1] = "ok" THEN 1 ELSE 0]

\* the kind of answer the stage's code then works with
KindOf(call) == IF call.response = 0 THEN "raise" ELSE "ok"

InitCalls ==
    /\ Idle
    /\ MAX_CANDIDATES_TO_SHORTLIST = 1
    /\ MINIMUM_SCORE_THRESHOLD = 60
    /\ pc = "llm_call_probe"
    /\ \E site \in StageCallSites \cup {"base_agent"}, f \in Files,
          outcomes \in AttemptOutcomes :
          probe = [stage |-> "input", site |-> site, file |-> f, outcomes |-> outcomes,
                   call |-> [attempts |-> 0, waits |-> <<>>, response |-> 0],
                   degraded |-> FALSE]

\* a stage's LLM call on the candidate of probe.file, and whether the stage
\* went on with its degraded output
StageCall ==
    /\ pc = "llm_call_probe"
    /\ probe.stage = "input"
    /\ probe.site \in StageCallSites
    /\ LET call == invoke_once(probe.outcomes)
           score == score_candidate(parse_cv(probe.file, TRUE, "ok"), Job("dev"),
                                    [kind |-> KindOf(call), cf |-> NominalCulturalFit])
           degraded ==
               CASE probe.site = "cv_analysis" ->
                       extract_structured_data_with_llm(probe.file, KindOf(call))
                       # extract_structured_data_with_llm(probe.file, "ok")
                 [] probe.site = "scoring" ->
                       get_llm_analysis([kind |-> KindOf(call), cf |-> NominalCulturalFit])
                       # get_llm_analysis([kind |-> "ok", cf |-> NominalCulturalFit])
                 [] probe.site = "question_generation" ->
                       get_questions_from_llm("technical", KindOf(call))
                       = get_fallback_questions("technical")
                 [] OTHER ->
                       draft_email(score, Job("dev"), "acknowledgment", KindOf(call))
                       = create_fallback_email(score, Job("dev"), "acknowledgment",
                                               detect_language_preference(Job("dev")))
       IN  probe' = [probe EXCEPT !.stage = "called", !.call = call,
                                  !.degraded = degraded]
    /\ UNCHANGED <<agentVars, configVars, pc, invoked, budget, warnings, finalizeVars>>

\* the retry helper, as EnhancedBaseAgent.process calls it
HelperCall ==
    /\ pc = "llm_call_probe"
    /\ probe.stage = "input"
    /\ probe.site = "base_agent"
    /\ LET call == execute_llm_call(probe.outcomes, 0, <<>>)
       IN  probe' = [probe EXCEPT !.stage = "called", !.call = call,
                                  !.degraded = (call.response = 0)]
    /\ UNCHANGED <<agentVars, configVars, pc, invoked, budget, warnings, finalizeVars>>

NextCalls ==
    \/ StageCall
    \/ HelperCall

SpecCalls == InitCalls /\ [][NextCalls]_vars

(***************************************************************************)
(* The intake harness: parse_multiple_cvs and then score_all_candidates,   *)
(* as the first two stages run them when there is a posting, with any      *)
(* combination of reader and LLM outcomes over the files.                  *)
(***************************************************************************)
IntakeParses ==
    {NominalParse, [text_ok |-> FALSE, llm |-> "ok"], [text_ok |-> TRUE, llm |-> "raise"],
     [text_ok |-> TRUE, llm |-> "not_object"]}

IntakeAnalyses ==
    {NominalAnalysis} \cup [kind : {"raise", "bad_json", "not_object"},
                            cf : {NominalCulturalFit}]

InitIntake ==
    /\ Idle
    /\ MAX_CANDIDATES_TO_SHORTLIST = 1
    /\ MINIMUM_SCORE_THRESHOLD = 60
    /\ pc = "intake_probe"
    /\ \E files \in SeqsUpTo(Files, MaxFiles) \ {<<>>}, j \in JobIds :
          \E outcomes \in [1..Len(files) -> IntakeParses],
             responses \in [1..Len(files) -> IntakeAnalyses] :
             probe = [stage |-> "input", files |-> files, job |-> j,
                      outcomes |-> outcomes, responses |-> responses,
                      parsed |-> <<>>, scores |-> <<>>]

IntakeProbe ==
    /\ pc = "intake_probe"
    /\ probe.stage = "input"
    /\ LET parsed == parse_multiple_cvs(probe.files, probe.outcomes)
       IN  probe' = [probe EXCEPT
                        !.stage = "scored",
                        !.parsed = parsed,
                        !.scores = score_all_candidates(parsed, Job(probe.job),
                                                        probe.responses)]
    /\ UNCHANGED <<agentVars, configVars, pc, invoked, budget, warnings, finalizeVars>>

NextIntake == IntakeProbe

SpecIntake == InitIntake /\ [][NextIntake]_vars

(***************************************************************************)
(* Properties of the orchestrated run and of the stages.                   *)
(***************************************************************************)
StageOrder == <<"parse_cvs", "score_candidates", "shortlist_candidates",
                "generate_questions", "draft_emails", "finalize_results">>

Last(s) == s[Len(s)]

\* what each stage's process() needs before it does any work
PrereqMissing(stage) ==
    CASE stage = "parse_cvs" -> cv_files = <<>>
      [] stage = "score_candidates" -> parsed_cvs = <<>> \/ job_description = None
      [] stage = "shortlist_candidates" -> candidate_scores = <<>>
      [] stage = "generate_questions" ->
            shortlisted_candidates = <<>> \/ job_description = None
      [] stage = "draft_emails" ->
            \/ candidate_scores = <<>>
            \/ shortlisted_candidates = <<>>
            \/ job_description = None
      [] OTHER -> FALSE

FiveStages == {StageOrder[i] : i \in 1..5}

\* C1: in a run of the workflow the six stages are invoked in the fixed
\* order parse, score, shortlist, questions, emails, finalize, each at most
\* once so far and each exactly once by the end of the run, whether or not
\* stages recorded errors: no stage is skipped and none runs out of turn.
C1_FixedOrder ==
    /\ IsPrefix(invoked, StageOrder)
    /\ pc = "END" => invoked = StageOrder
    /\ pc # "END" => Len(invoked) < Len(StageOrder) /\ pc = StageOrder[Len(invoked) + 1]

\* a finished run in which the first stage already failed and every later
\* stage ran all the same
C1_Witness ==
    /\ pc = "END"
    /\ Len(errors) >= 4
    /\ errors[1] = "No CV files provided for parsing"
    /\ invoked = StageOrder

\* C2 (as stated): whenever one of cv_files, job_description and
\* shortlisted_candidates is empty or absent, a call of any of the five
\* stages leaves errors strictly longer.
C2_AsStated ==
    [][(\E stage \in FiveStages : invoked' = Append(invoked, stage))
       /\ (cv_files = <<>> \/ job_description = None \/ shortlisted_candidates = <<>>)
       => Len(errors') > Len(errors)]_vars

\* C2 (amended): whatever inputs are empty or absent, each of the five
\* stages can be called and returns a state (none raises), errors never
\* loses an entry, and errors is strictly longer after the call whenever
\* an input the called stage itself needs is empty or absent.
C2_NoCrash ==
    /\ [](pc = "stage_call" /\ Len(invoked) < MaxCalls =>
            /\ ENABLED CallParse
            /\ ENABLED CallScore
            /\ ENABLED CallShortlist
            /\ ENABLED CallInterview
            /\ ENABLED CallEmail)
    /\ [][\A stage \in FiveStages :
            invoked' = Append(invoked, stage) =>
                /\ IsPrefix(errors, errors')
                /\ PrereqMissing(stage) => Len(errors') > Len(errors)]_vars

\* every stage has been called on a state with no CV files and no posting,
\* and each call added its entry
C2_Witness ==
    /\ cv_files = <<>>
    /\ job_description = None
    /\ shortlisted_candidates = <<>>
    /\ Len(invoked) = 4
    /\ Len(errors) = 4
    /\ Range(invoked) = FiveStages \ {"parse_cvs"}

\* C3: a run ends only after the finalize stage, with processing_status
\* "completed" or "failed" and never "pending" or "running"; it is "failed"
\* exactly when the finalize stage as a whole threw, which a snapshot that
\* could not be saved does not cause.
C3_FinalStatus ==
    pc = "END" =>
        /\ Last(invoked) = "finalize_results"
        /\ processing_status \in {"completed", "failed"}
        /\ processing_status = "failed" <=> finalize_threw
        /\ ~mkdir_failed => processing_status = "completed" /\ current_step = "completed"

\* a finished run in which a snapshot could not be written and the status
\* is completed all the same
C3_Witness ==
    /\ pc = "END"
    /\ save_failed # {}
    /\ ~mkdir_failed
    /\ processing_status = "completed"

\* C4: a stage called without what it needs appends exactly one entry to
\* errors and leaves current_step, processing_status, parsed_cvs,
\* candidate_scores, shortlisted_candidates, interview_questions and
\* email_drafts as they were.
C4_Frame ==
    [][\A stage \in FiveStages :
          invoked' = Append(invoked, stage) /\ PrereqMissing(stage) =>
              /\ Len(errors') = Len(errors) + 1
              /\ SubSeq(errors', 1, Len(errors)) = errors
              /\ UNCHANGED <<current_step, processing_status, parsed_cvs,
                             candidate_scores, shortlisted_candidates,
                             interview_questions, email_drafts>>]_vars

\* question generation was called with a shortlist but no posting, after
\* earlier stages had filled the state, and only errors moved
C4_Witness ==
    /\ Len(invoked) = 4
    /\ Last(invoked) = "generate_questions"
    /\ shortlisted_candidates # <<>>
    /\ job_description = None
    /\ current_step = "candidates_shortlisted"
    /\ errors = <<"No job description available for interview question generation">>

\* C5: errors is append-only: across every step of a run the list before
\* the step is a prefix of the list after it.
C5_AppendOnly == [][IsPrefix(errors, errors')]_vars

\* a finished run whose errors grew stage by stage and once more in the
\* finalize stage
C5_Witness ==
    /\ pc = "END"
    /\ Len(errors) = 6
    /\ Last(errors) = "Error finalizing results"

SortedDesc(s) ==
    \A i, j \in 1..Len(s) : i < j => s[i].overall_score >= s[j].overall_score

Count(s, x) == Cardinality({i \in 1..Len(s) : s[i] = x})

\* C6: for every score list and every configured limit and threshold the
\* shortlist is no longer than the limit, no longer than the score list,
\* and made of elements of the score list only.
C6_Bounded ==
    probe.stage # "input" =>
        /\ Len(probe.first) <= MAX_CANDIDATES_TO_SHORTLIST
        /\ Len(probe.first) <= Len(probe.scores)
        /\ \A x \in Range(probe.first) : Count(probe.first, x) <= Count(probe.scores, x)

\* three candidates qualify and the limit of two cuts the list
C6_Witness ==
    /\ probe.stage = "once"
    /\ Len(probe.scores) = 3
    /\ MAX_CANDIDATES_TO_SHORTLIST = 2
    /\ MINIMUM_SCORE_THRESHOLD = 60
    /\ \A i \in 1..3 : probe.scores[i].overall_score >= OverallPts(60)
    /\ Len(probe.first) = 2

AllBelowThreshold(scores, threshold) ==
    /\ scores # <<>>
    /\ \A i \in 1..Len(scores) : scores[i].overall_score < OverallPts(threshold)

\* C7: when every candidate is below the threshold the shortlist is not
\* empty: it is the whole score list in descending order of score cut at
\* the limit (the best candidates, as many as the limit allows), and the
\* warning line is emitted.
C7_Fallback ==
    probe.stage # "input" /\ AllBelowThreshold(probe.scores, MINIMUM_SCORE_THRESHOLD) =>
        /\ probe.warned
        /\ Len(probe.first) = Min(MAX_CANDIDATES_TO_SHORTLIST, Len(probe.scores))
        /\ SortedDesc(probe.first)
        /\ \A x \in Range(probe.scores) :
              /\ Count(probe.first, x) <= Count(probe.scores, x)
              /\ Count(probe.first, x) < Count(probe.scores, x) =>
                    \A y \in Range(probe.first) : x.overall_score <= y.overall_score

\* nobody reaches the threshold, the list arrives unsorted and longer than
\* the limit, and the two best are listed
C7_Witness ==
    /\ probe.stage = "once"
    /\ MINIMUM_SCORE_THRESHOLD = 100
    /\ MAX_CANDIDATES_TO_SHORTLIST = 2
    /\ Len(probe.scores) = 3
    /\ probe.scores[1].overall_score < probe.scores[2].overall_score
    /\ probe.scores[2].overall_score < probe.scores[3].overall_score
    /\ probe.warned
    /\ probe.first = <<probe.scores[3], probe.scores[2]>>

\* C8: shortlisting is idempotent: on a score list sorted in descending
\* order, shortlisting the shortlist returns the same candidates in the
\* same order.
C8_Idempotent ==
    probe.stage = "twice" /\ SortedDesc(probe.scores) => probe.second = probe.first

\* a sorted list with two candidates of equal score, shortlisted twice
C8_Witness ==
    /\ probe.stage = "twice"
    /\ SortedDesc(probe.scores)
    /\ Len(probe.scores) = 3
    /\ probe.scores[1] # probe.scores[2]
    /\ probe.scores[1].overall_score = probe.scores[2].overall_score
    /\ Len(probe.first) = 2
    /\ probe.second = probe.first

\* C9: after the scoring stage ran on a non-empty parsed list (a run always
\* has a posting) there is exactly one score per parsed candidate, under
\* that candidate's name and file name, and the scores are in descending
\* order of overall_score.
C9_OnePerCandidate ==
    "score_candidates" \in Range(invoked) /\ parsed_cvs # <<>> =>
        /\ Len(candidate_scores) = Len(parsed_cvs)
        /\ SortedDesc(candidate_scores)
        /\ \A i \in 1..Len(parsed_cvs) :
              Cardinality({k \in 1..Len(parsed_cvs) :
                              /\ parsed_cvs[k].name = parsed_cvs[i].name
                              /\ parsed_cvs[k].file_name = parsed_cvs[i].file_name})
              = Cardinality({k \in 1..Len(candidate_scores) :
                              /\ candidate_scores[k].candidate_name = parsed_cvs[i].name
                              /\ candidate_scores[k].file_name = parsed_cvs[i].file_name})

\* the weaker candidate was parsed first and is scored second
C9_Witness ==
    /\ "score_candidates" \in Range(invoked)
    /\ Len(parsed_cvs) = 2
    /\ Len(candidate_scores) = 2
    /\ candidate_scores[1].file_name = parsed_cvs[2].file_name
    /\ candidate_scores[1].file_name # parsed_cvs[1].file_name
    /\ candidate_scores[1].overall_score > candidate_scores[2].overall_score

\* C10: the overall score lies between 0 and 100 whatever cultural-fit
\* value the LLM returns, and raising any one of the skills, experience,
\* education and cultural-fit components never lowers it.
C10_RangeAndMonotone ==
    probe.stage = "scored" =>
        /\ 0 <= probe.overall_score /\ probe.overall_score <= OverallPts(100)
        /\ 0 <= probe.overall_base /\ probe.overall_base <= OverallPts(100)
        /\ 0 <= probe.overall_raised /\ probe.overall_raised <= OverallPts(100)
        /\ probe.overall_base <= probe.overall_raised

\* the LLM's cultural fit goes from below 0 to above 100 and the overall
\* score rises, while the candidate scored got an out-of-range value too
C10_Witness ==
    /\ probe.stage = "scored"
    /\ probe.r.kind = "ok" /\ probe.r.cf = 150
    /\ probe.overall_score > 0
    /\ probe.which = "cultural_fit"
    /\ probe.base.cultural_fit = 0 - 20
    /\ probe.raised = 150
    /\ probe.overall_raised > probe.overall_base

\* C11: when the posting requires no skills the skills score is exactly
\* 100, whatever skills and languages the candidate has and whatever skills
\* the posting prefers.
C11_NoRequiredSkills ==
    probe.stage = "scored" /\ probe.job.required_skills = {} =>
        probe.skills_score = Pts(100)

\* a candidate without skills or languages against a posting that only
\* prefers skills still scores 100
C11_Witness ==
    /\ probe.stage = "scored"
    /\ probe.job.required_skills = {}
    /\ probe.job.preferred_skills = ProbePreferred
    /\ probe.cv.skills = {}
    /\ probe.cv.languages = {}
    /\ probe.skills_score = Pts(100)

\* C12: parsing a non-empty file list gives exactly one record per file, in
\* the order of the files; a file whose text could not be extracted gives
\* the placeholder named "Unknown Candidate" whose raw_text is the error
\* description, and the other files of the batch are parsed as they would
\* be on their own.
C12_OnePerFile ==
    probe.stage = "parsed" /\ probe.files # <<>> =>
        /\ Len(probe.parsed) = Len(probe.files)
        /\ \A i \in 1..Len(probe.files) :
              /\ probe.parsed[i].file_name = BaseName(probe.files[i])
              /\ ~probe.outcomes[i].text_ok =>
                    /\ probe.parsed[i].name = "Unknown Candidate"
                    /\ probe.parsed[i].raw_text = "Error parsing file: Could not extract text"
                    /\ probe.parsed[i].skills = {}
              /\ probe.outcomes[i] = NominalParse =>
                    /\ probe.parsed[i].raw_text = Doc(probe.files[i]).text
                    /\ Doc(probe.files[i]).skills \subseteq probe.parsed[i].skills

\* the first of two files cannot be read and the second is parsed all the same
C12_Witness ==
    /\ probe.stage = "parsed"
    /\ probe.files = <<"cvs/a.txt", "cvs/b.txt">>
    /\ ~probe.outcomes[1].text_ok
    /\ probe.outcomes[2] = NominalParse
    /\ probe.parsed[1].name = "Unknown Candidate"
    /\ probe.parsed[2].name = "Bob Jones"
    /\ probe.parsed[2].file_name = "b.txt"

\* the record the regex heuristics alone give for a document
HeuristicOnly(f) ==
    [name |-> format_candidate_name(Doc(f).name), email |-> Doc(f).email,
     current_role |-> None, experience_years |-> Doc(f).experience_years,
     skills |-> Doc(f).skills, education |-> Doc(f).education,
     work_experience |-> Doc(f).work_experience, languages |-> {},
     raw_text |-> Doc(f).text, file_name |-> BaseName(f)]

\* C13: when the LLM call of the CV analysis fails or its answer is no
\* JSON, the LLM contributes the empty dict and the record is the one the
\* heuristics alone give (their name, email, skills and years of
\* experience); nothing is raised and no placeholder is produced.
C13_HeuristicOnly ==
    probe.stage = "parsed" =>
        \A i \in 1..Len(probe.files) :
            probe.outcomes[i].text_ok /\ probe.outcomes[i].llm \in {"raise", "bad_json"} =>
                /\ probe.llm_data[i].is_dict
                /\ probe.llm_data[i].keys = {}
                /\ probe.parsed[i] = HeuristicOnly(probe.files[i])

\* the LLM call failed for a document whose heuristics found a name, skills
\* and years of experience, and those are in the record
C13_Witness ==
    /\ probe.stage = "parsed"
    /\ probe.files = <<"cvs/a.txt">>
    /\ probe.outcomes[1] = [text_ok |-> TRUE, llm |-> "raise"]
    /\ probe.parsed[1].name = "Alice Smith"
    /\ probe.parsed[1].skills = {"Python", "Sql", "Aws"}
    /\ probe.parsed[1].experience_years = 5
    /\ probe.parsed[1].languages = {}

\* the answers of the LLM that make score_candidate raise: JSON that is no
\* object has no .get
ScoringRaises(r) == r.kind = "not_object"

ZeroScore(s) ==
    /\ s.skills_match_score = 0
    /\ s.experience_score = 0
    /\ s.education_score = 0
    /\ s.overall_score = 0
    /\ s.reasoning = "Error occurred during scoring"

\* the sub-scores of s are the ones the heuristics compute for cv
HeuristicSubScores(s, cv, job) ==
    /\ s.candidate_name = cv.name
    /\ s.file_name = cv.file_name
    /\ s.skills_match_score = calculate_skills_score(cv, job)
    /\ s.experience_score = calculate_experience_score(cv, job)
    /\ s.education_score = calculate_education_score(cv, job)

\* C14: a candidate whose scoring raised gets a score record whose skills,
\* experience, education and overall scores are 0 and whose reasoning is
\* the error text, and every other candidate of the batch is scored as
\* usual: the batch has one record per candidate, as many zero records as
\* candidates that raised.
C14_ZeroScoreOnFailure ==
    probe.stage = "scored" =>
        /\ Len(probe.scores) = Len(probe.cvs)
        /\ Cardinality({k \in 1..Len(probe.scores) : ZeroScore(probe.scores[k])})
           = Cardinality({i \in 1..Len(probe.cvs) : ScoringRaises(probe.responses[i])})
        /\ \A i \in 1..Len(probe.cvs) :
              \E k \in 1..Len(probe.scores) :
                 /\ probe.scores[k].candidate_name = probe.cvs[i].name
                 /\ probe.scores[k].file_name = probe.cvs[i].file_name
                 /\ IF ScoringRaises(probe.responses[i])
                    THEN ZeroScore(probe.scores[k])
                    ELSE /\ HeuristicSubScores(probe.scores[k], probe.cvs[i], Job(probe.job))
                         /\ probe.scores[k].reasoning # "Error occurred during scoring"

\* scoring the first candidate raised, the second one is scored and ranked
\* above the zero record
C14_Witness ==
    /\ probe.stage = "scored"
    /\ probe.job = "dev"
    /\ Len(probe.cvs) = 2
    /\ probe.cvs[1].file_name = "a.txt"
    /\ probe.cvs[2].file_name = "b.txt"
    /\ ScoringRaises(probe.responses[1])
    /\ probe.responses[2] = NominalAnalysis
    /\ probe.scores[1].file_name = "b.txt"
    /\ probe.scores[1].overall_score > 0
    /\ ZeroScore(probe.scores[2])
    /\ probe.scores[2].file_name = "a.txt"

\* the overall score of s is the weighted sum of its own sub-scores and a
\* cultural fit of cf points
OverallWithFit(s, cf) ==
    s.overall_score = weighted_overall(s.skills_match_score, s.experience_score,
                                       s.education_score, Pts(cf))

Clamped(v) == IF v < 0 THEN 0 ELSE IF v > 100 THEN 100 ELSE v

\* C15: the cultural-fit value that enters the overall score lies in 0..100:
\* a number returned by the LLM enters clamped to that range, and when the
\* LLM call fails or its answer cannot be parsed the value is 70; in both
\* cases the skills, experience and education sub-scores are the ones the
\* heuristics computed, not zeros.
C15_CulturalFit ==
    probe.stage = "scored" =>
        \A i \in 1..Len(probe.cvs) :
            ~ScoringRaises(probe.responses[i]) =>
                \E k \in 1..Len(probe.scores) :
                   /\ HeuristicSubScores(probe.scores[k], probe.cvs[i], Job(probe.job))
                   /\ \E cf \in 0..100 : OverallWithFit(probe.scores[k], cf)
                   /\ probe.responses[i].kind = "ok" =>
                         OverallWithFit(probe.scores[k], Clamped(probe.responses[i].cf))
                   /\ probe.responses[i].kind \in {"raise", "bad_json"} =>
                         OverallWithFit(probe.scores[k], 70)

\* the LLM call failed for the strong candidate: the sub-scores are the
\* heuristic ones, above zero, and the overall score carries a fit of 70
C15_Witness ==
    /\ probe.stage = "scored"
    /\ probe.job = "dev"
    /\ Len(probe.cvs) = 1
    /\ probe.cvs[1].file_name = "a.txt"
    /\ probe.responses[1].kind = "raise"
    /\ probe.scores[1].skills_match_score > 0
    /\ probe.scores[1].experience_score > 0
    /\ probe.scores[1].education_score > 0
    /\ OverallWithFit(probe.scores[1], 70)
    /\ ~OverallWithFit(probe.scores[1], 0)

\* C16: after question generation on a non-empty shortlist with a posting,
\* interview_questions holds as many question sets as there are shortlisted
\* candidates, and every shortlisted candidate has a set of its own (no two
\* shortlisted candidates share one).
C16_OneSetPerShortlisted ==
    probe.stage = "generated" /\ probe.shortlisted # <<>> =>
        /\ Cardinality(DOMAIN probe.questions) = Len(probe.shortlisted)
        /\ \A i \in 1..Len(probe.shortlisted) :
              probe.shortlisted[i].candidate_name \in DOMAIN probe.questions
        /\ \A i, k \in 1..Len(probe.shortlisted) :
              i # k => probe.shortlisted[i].candidate_name
                       # probe.shortlisted[k].candidate_name

QuestionFailures == {"raise", "bad_json"}
StoredList(set, category) ==
    CASE category = "technical" -> set.technical_questions
      [] category = "behavioral" -> set.behavioral_questions
      [] category = "role-specific" -> set.role_specific_questions
StoredCategories == {"technical", "behavioral", "role-specific"}

\* C17: for each of the four question categories, when the LLM call fails or
\* its response is not parsable JSON, the list produced for that category is
\* exactly the one static fallback question of that category (and that is what
\* the candidate's set stores for technical, behavioral and role-specific);
\* when every call fails, every list of every shortlisted candidate's set
\* holds exactly its one fallback question.
C17_FallbackQuestions ==
    probe.stage = "generated" =>
        /\ \A i \in 1..Len(probe.shortlisted) : \A c \in Categories :
              probe.kinds[i][c] \in QuestionFailures =>
                 /\ Len(probe.generated[i][c]) = 1
                 /\ probe.generated[i][c] = get_fallback_questions(c)
                 /\ probe.generated[i][c][1].category = c
                 /\ c \in StoredCategories =>
                       StoredList(probe.sets[i], c) = probe.generated[i][c]
        /\ (\A i \in 1..Len(probe.shortlisted) : \A c \in Categories :
                probe.kinds[i][c] \in QuestionFailures)
           => \A i \in 1..Len(probe.shortlisted) : \A c \in StoredCategories :
                 LET set == probe.questions[probe.shortlisted[i].candidate_name]
                 IN  /\ Len(StoredList(set, c)) = 1
                     /\ StoredList(set, c) = get_fallback_questions(c)

C17_Witness ==
    /\ probe.stage = "generated"
    /\ Len(probe.shortlisted) = 2
    /\ \A c \in Categories : probe.kinds[1][c] = "raise"
    /\ probe.kinds[2]["general"] = "bad_json"
    /\ probe.kinds[2]["technical"] = "ok"
    /\ Len(probe.generated[2]["technical"]) = 2
    /\ Len(probe.sets[1].behavioral_questions) = 1

\* C18: in every CandidateQuestionSet, total_questions equals the sum of the
\* lengths of the three lists the set stores: technical, behavioral and
\* role-specific.
C18_TotalIsStoredSum ==
    probe.stage = "generated" =>
        \A n \in DOMAIN probe.questions :
            LET set == probe.questions[n]
            IN  set.total_questions = Len(set.technical_questions)
                                      + Len(set.behavioral_questions)
                                      + Len(set.role_specific_questions)

HasDraft(name, email_type) ==
    \E d \in 1..Len(probe.drafts) :
        /\ probe.drafts[d].recipient_name = name
        /\ probe.drafts[d].email_type = email_type

\* C19: after email drafting, email_drafts contains an interview invitation
\* for every shortlisted candidate, a rejection for every scored candidate
\* that is not shortlisted (the ranking beyond the shortlist) and an
\* acknowledgment for every scored candidate; no candidate has both an
\* invitation and a rejection.
C19_DraftsPerCandidate ==
    probe.stage = "drafted" =>
        /\ \A i \in 1..Len(probe.shortlisted) :
              HasDraft(probe.scored[i].candidate_name, "interview_invitation")
        /\ \A i \in (Len(probe.shortlisted) + 1)..Len(probe.scored) :
              HasDraft(probe.scored[i].candidate_name, "rejection")
        /\ \A i \in 1..Len(probe.scored) :
              HasDraft(probe.scored[i].candidate_name, "acknowledgment")
        /\ \A i \in 1..Len(probe.scored) :
              ~(/\ HasDraft(probe.scored[i].candidate_name, "interview_invitation")
                /\ HasDraft(probe.scored[i].candidate_name, "rejection"))

\* the candidate and the email type of the d-th draft: invitations for the
\* shortlist come first and acknowledgments for the whole ranking last
DraftCandidate(d) ==
    IF d <= Len(probe.shortlisted) THEN probe.shortlisted[d]
    ELSE IF d > Len(probe.drafts) - Len(probe.scored)
    THEN probe.scored[d - (Len(probe.drafts) - Len(probe.scored))]
    ELSE SelectSeq(probe.scored,
                   LAMBDA c : \A i \in 1..Len(probe.shortlisted) :
                                 probe.shortlisted[i].candidate_name # c.candidate_name)
             [d - Len(probe.shortlisted)]

FixedTemplate(d) ==
    EmailText("fallback_templates", detect_language_preference(Job(probe.job)),
              probe.drafts[d].email_type, DraftCandidate(d), Job(probe.job))

\* C20: for each email draft type, when the LLM call fails, or when neither a
\* subject nor a body can be parsed from its response (an empty response),
\* the draft's subject and body are those of the fixed template for the
\* detected language and the email type, interpolated with the candidate's
\* name, the company and the job title.
C20_TemplateOnFailure ==
    probe.stage = "drafted" =>
        \A d \in 1..Len(probe.drafts) :
            probe.kinds[d] \in {"raise", "empty"} =>
                /\ probe.drafts[d].subject = FixedTemplate(d)
                /\ probe.drafts[d].body = FixedTemplate(d)

CandidateA == "Alice Smith"
CandidateB == "Bob Jones"
ScoreOf(name) == CHOOSE s \in Range(probe.scores) : s.candidate_name = name
Drafted(name, email_type) ==
    \E d \in 1..Len(probe.drafts) :
        /\ probe.drafts[d].recipient_name = name
        /\ probe.drafts[d].email_type = email_type

\* C21: in the happy-path scenario (the posting requires Python and SQL and
\* three years; A has Python, SQL, AWS, five years and a Bachelor's; B has
\* Java, one year and no education) A's overall score exceeds B's for every
\* pair of cultural-fit values in 0..100, the shortlist with a limit of one
\* is [A], A gets an interview invitation, B a rejection, and both get an
\* acknowledgment.
C21_HappyPath ==
    probe.stage = "mailed" =>
        /\ Len(probe.scores) = 2
        /\ ScoreOf(CandidateA).overall_score > ScoreOf(CandidateB).overall_score
        /\ probe.shortlisted = <<ScoreOf(CandidateA)>>
        /\ Drafted(CandidateA, "interview_invitation")
        /\ Drafted(CandidateB, "rejection")
        /\ Drafted(CandidateA, "acknowledgment")
        /\ Drafted(CandidateB, "acknowledgment")
        /\ ~Drafted(CandidateA, "rejection")
        /\ ~Drafted(CandidateB, "interview_invitation")

\* the least favourable pair: the LLM gives A a cultural fit of 0 and B one
\* of 100, and the posting has no education requirement
C21_Witness ==
    /\ probe.stage = "mailed"
    /\ probe.cvs[1].name = CandidateB
    /\ probe.cvs[1].skills = {"Java"}
    /\ probe.cvs[1].experience_years = 1
    /\ probe.cvs[2].experience_years = 5
    /\ probe.fits = <<100, 0>>
    /\ probe.job.education_requirements = {}
    /\ probe.job.required_skills = {"Python", "SQL"}
    /\ probe.job.min_experience = 3
    /\ Len(probe.drafts) = 4
    /\ probe.shortlisted[1].candidate_name = CandidateA

FirstSuccess(outcomes) ==
    IF \E i \in 1..max_retries : outcomes[i] = "ok"
    THEN CHOOSE i \in 1..max_retries :
             outcomes[i] = "ok" /\ \A k \in 1..(i - 1) : outcomes[k] = "raise"
    ELSE 0

\* C22: a failing LLM call of a pipeline stage (CV analysis, scoring, question
\* generation, email drafting) is retried a fixed number of times (three
\* attempts in all) with exponentially growing waits; the stage's degraded
\* fallback is used only after all attempts failed, and the response used is
\* that of the first successful attempt.
C22_RetryBeforeFallback ==
    probe.stage = "called" /\ probe.site \in StageCallSites =>
        /\ probe.call.attempts <= max_retries
        /\ probe.degraded => probe.call.attempts = max_retries
        /\ probe.degraded => \A i \in 1..max_retries : probe.outcomes[i] = "raise"
        /\ probe.call.response = FirstSuccess(probe.outcomes)
        /\ probe.call.waits = [i \in 1..(probe.call.attempts - 1) |-> 2 ^ (i - 1)]

StepOrder ==
    <<"start", "parsing_cvs", "cvs_parsed", "scoring_candidates", "candidates_scored",
      "shortlisting_candidates", "candidates_shortlisted", "generating_questions",
      "questions_generated", "drafting_emails", "emails_drafted", "completed">>
StepIndex(step) == CHOOSE i \in 1..Len(StepOrder) : StepOrder[i] = step

\* the step a stage writes on entering its try block, before the step it
\* leaves behind
EnteredAs(step) ==
    CASE step = "cvs_parsed" -> "parsing_cvs"
      [] step = "candidates_scored" -> "scoring_candidates"
      [] step = "candidates_shortlisted" -> "shortlisting_candidates"
      [] step = "questions_generated" -> "generating_questions"
      [] step = "emails_drafted" -> "drafting_emails"
      [] OTHER -> step

\* C23: throughout a run current_step only moves forward along the linear
\* order start, parsing_cvs, ..., emails_drafted, completed (a stage may be
\* skipped, none is revisited), so the progress percentage looked up for it
\* never decreases, and it is 100 only at the terminal step.
C23_ForwardOnly ==
    /\ [](/\ current_step \in Range(StepOrder)
          /\ calculate_progress(current_step) = 100 <=> current_step = "completed")
    /\ [][/\ current_step' # current_step =>
                /\ StepIndex(current_step') > StepIndex(current_step)
                /\ StepIndex(EnteredAs(current_step')) > StepIndex(current_step)
          /\ calculate_progress(current_step') >= calculate_progress(current_step)]_vars

C23_Witness ==
    /\ pc = "END"
    /\ current_step = "completed"
    /\ calculate_progress(current_step) = 100
    /\ Len(invoked) = 6
    /\ email_drafts # <<>>
    /\ interview_questions # <<>>

Qualified(scores, threshold) ==
    SelectSeq(scores, LAMBDA c : c.overall_score >= OverallPts(threshold))

\* C24: when at least one candidate reaches the threshold, every shortlisted
\* candidate reaches it, the shortlist is in descending order of overall
\* score, and it is the top of the qualified candidates, as many as the
\* limit allows: no qualified candidate left out scores strictly higher
\* than a shortlisted one.
C24_TopOfQualified ==
    probe.stage # "input"
    /\ Qualified(probe.scores, MINIMUM_SCORE_THRESHOLD) # <<>> =>
        LET qualified == Qualified(probe.scores, MINIMUM_SCORE_THRESHOLD)
        IN  /\ ~probe.warned
            /\ \A i \in 1..Len(probe.first) :
                  probe.first[i].overall_score >= OverallPts(MINIMUM_SCORE_THRESHOLD)
            /\ SortedDesc(probe.first)
            /\ Len(probe.first) = Min(MAX_CANDIDATES_TO_SHORTLIST, Len(qualified))
            /\ \A x \in Range(qualified) :
                  /\ Count(probe.first, x) <= Count(qualified, x)
                  /\ Count(probe.first, x) < Count(qualified, x) =>
                        \A y \in Range(probe.first) : x.overall_score <= y.overall_score

\* an unsorted list of three, two of them qualified, one qualified candidate
\* cut by the limit of one
C24_Witness ==
    /\ probe.stage = "once"
    /\ MINIMUM_SCORE_THRESHOLD = 60
    /\ MAX_CANDIDATES_TO_SHORTLIST = 1
    /\ Len(probe.scores) = 3
    /\ probe.scores[1].overall_score = OverallPts(40)
    /\ probe.scores[2].overall_score = OverallPts(60)
    /\ probe.scores[3].overall_score = OverallPts(85)
    /\ probe.first = <<probe.scores[3]>>

\* C25: besides current_step and errors each stage writes only its own
\* output field (parsing parsed_cvs, scoring candidate_scores, shortlisting
\* shortlisted_candidates, question generation interview_questions, email
\* drafting email_drafts); no stage changes job_description, cv_files or a
\* collection produced by an earlier stage.
C25_OwnFieldOnly ==
    [][\A stage \in FiveStages :
          invoked' = Append(invoked, stage) =>
              /\ UNCHANGED <<job_description, cv_files, processing_status>>
              /\ stage # "parse_cvs" => UNCHANGED parsed_cvs
              /\ stage # "score_candidates" => UNCHANGED candidate_scores
              /\ stage # "shortlist_candidates" => UNCHANGED shortlisted_candidates
              /\ stage # "generate_questions" => UNCHANGED interview_questions
              /\ stage # "draft_emails" => UNCHANGED email_drafts]_vars

\* a full run in which nobody reached the threshold: the shortlisting
\* fallback sorted the two-element score list in place, and it is still the
\* list the scoring stage left
C25_Witness ==
    /\ pc = "END"
    /\ warnings > 0
    /\ Len(candidate_scores) = 2
    /\ Len(shortlisted_candidates) = 1
    /\ interview_questions # <<>>
    /\ email_drafts # <<>>
    /\ Len(parsed_cvs) = 2

\* C26: shortlist_candidates is pure: for every input list (sorted or not,
\* with or without a candidate that reaches the threshold) the input list
\* holds the same elements in the same order after the call as before it,
\* and a call with the same input and configuration returns the same result.
C26_Pure ==
    probe.stage # "input" =>
        /\ probe.after = probe.scores
        /\ probe.first = shortlist_candidates(probe.scores, MAX_CANDIDATES_TO_SHORTLIST,
                                              MINIMUM_SCORE_THRESHOLD).shortlisted

\* C27: a record is the error placeholder only if the file's text could not
\* be extracted: for every answer of the LLM on a readable file (an object
\* with missing or null fields and a JSON value that is no object included)
\* the record keeps the file's real raw_text and the fields the heuristics
\* found.
C27_PlaceholderOnlyUnreadable ==
    probe.stage = "parsed" =>
        \A i \in 1..Len(probe.files) :
            probe.outcomes[i].text_ok =>
                LET h == Doc(probe.files[i])
                    cv == probe.parsed[i]
                IN  /\ cv.raw_text = h.text
                    /\ h.skills \subseteq cv.skills
                    /\ h.name # None => cv.name = format_candidate_name(h.name)
                    /\ h.email # None => cv.email = h.email
                    /\ h.experience_years # NoneInt =>
                          cv.experience_years = h.experience_years
                    /\ h.education # {} => cv.education = h.education
                    /\ h.work_experience # {} => cv.work_experience = h.work_experience

FilesNamed(b) == Cardinality({i \in 1..Len(probe.files) : BaseName(probe.files[i]) = b})
ParsedNamed(b) == Cardinality({i \in 1..Len(probe.parsed) : probe.parsed[i].file_name = b})
ScoresNamed(b) == Cardinality({i \in 1..Len(probe.scores) : probe.scores[i].file_name = b})

\* C28: with a posting and a non-empty cv_files list, parsed_cvs and
\* candidate_scores have as many elements as cv_files whatever extraction
\* and LLM failures occur: every input file has its record and its score,
\* none is dropped and none is duplicated.
C28_NoFileLost ==
    probe.stage = "scored" =>
        /\ Len(probe.parsed) = Len(probe.files)
        /\ Len(probe.scores) = Len(probe.files)
        /\ \A f \in Files :
              /\ ParsedNamed(BaseName(f)) = FilesNamed(BaseName(f))
              /\ ScoresNamed(BaseName(f)) = FilesNamed(BaseName(f))

\* one file unreadable and the other's CV analysis failing, both ending up
\* as "Unknown Candidate", and the scoring LLM failing for both
C28_Witness ==
    /\ probe.stage = "scored"
    /\ probe.files = <<"cvs/a.txt", "cvs/b.txt">>
    /\ ~probe.outcomes[1].text_ok
    /\ probe.outcomes[2] = [text_ok |-> TRUE, llm |-> "raise"]
    /\ probe.responses[1].kind = "not_object"
    /\ probe.responses[2].kind = "raise"
    /\ probe.parsed[1].name = "Unknown Candidate"
    /\ probe.parsed[2].name = "Unknown Candidate"
    /\ Len(probe.scores) = 2

NoShortlistErrors ==
    {"No shortlisted candidates available for interview question generation",
     "No shortlisted candidates available for email drafting"}

\* C29: whenever candidate_scores is not empty and the limit is at least 1,
\* the shortlisting stage leaves a non-empty shortlist whatever the
\* threshold, so question generation and email drafting never take their
\* 'no shortlisted candidates' error path in that run.
C29_ShortlistNeverEmpty ==
    candidate_scores # <<>> /\ MAX_CANDIDATES_TO_SHORTLIST >= 1 =>
        /\ "shortlist_candidates" \in Range(invoked) => shortlisted_candidates # <<>>
        /\ Range(errors) \cap NoShortlistErrors = {}

\* a finished run in which nobody reached the threshold and the later
\* stages still had a shortlist to work on
C29_Witness ==
    /\ pc = "END"
    /\ MINIMUM_SCORE_THRESHOLD = 99
    /\ warnings > 0
    /\ candidate_scores # <<>>
    /\ shortlisted_candidates # <<>>
    /\ interview_questions # <<>>
    /\ email_drafts # <<>>
    /\ errors = <<>>

EmptyRunErrors ==
    <<"No CV files provided for parsing",
      "No parsed CVs available for scoring",
      "No candidate scores available for shortlisting",
      "No shortlisted candidates available for interview question generation",
      "No candidate scores available for email drafting">>

EmptyOutputs ==
    /\ parsed_cvs = <<>>
    /\ candidate_scores = <<>>
    /\ shortlisted_candidates = <<>>
    /\ interview_questions = <<>>
    /\ email_drafts = <<>>

\* C30 as stated: a run started with an empty cv_files list ends with all
\* five outputs empty, errors holding exactly one entry of each of the five
\* stages in stage order, processing_status completed and current_step at
\* the terminal step.
C30_AsStated ==
    pc = "END" /\ cv_files = <<>> =>
        /\ EmptyOutputs
        /\ errors = EmptyRunErrors
        /\ processing_status = "completed"
        /\ current_step = "completed"

\* C30, amended: a run started with an empty cv_files list never stops short
\* of the end, and ends with all five outputs empty and one entry of each of
\* the five stages, in stage order, first in errors; it ends completed at the
\* terminal step with exactly those entries, unless the finalize step as a
\* whole throws: then a sixth entry follows, processing_status is failed and
\* current_step is still the initial step.
C30_EmptyRun ==
    cv_files = <<>> =>
        /\ pc # "END" => ENABLED Next
        /\ pc = "END" =>
              /\ EmptyOutputs
              /\ IF finalize_threw
                 THEN /\ errors = Append(EmptyRunErrors, "Error finalizing results")
                      /\ processing_status = "failed"
                      /\ current_step = "start"
                 ELSE /\ errors = EmptyRunErrors
                      /\ processing_status = "completed"
                      /\ current_step = "completed"

\* an empty run that ended completed after all six nodes
C30_Witness ==
    /\ pc = "END"
    /\ cv_files = <<>>
    /\ invoked = StageOrder
    /\ Len(errors) = 5
    /\ processing_status = "completed"
    /\ current_step = "completed"

====
